---- MODULE Spec2Model ----
(***************************************************************************)
(* Verification model of axiom-ebpf:                                       *)
(*   - the sparse physical frame allocator                                 *)
(*     (kernel/crates/kernel_physical_memory/src/lib.rs)                   *)
(*   - the ring buffer consumer (userspace/rk_bridge/src/ringbuf.rs)       *)
(***************************************************************************)
EXTENDS Integers, Naturals, Sequences, FiniteSets, TLC

VARIABLES
    regions,          \* PhysicalMemoryManager.regions: 0-based array of [base, frames]
    first_free,       \* PhysicalMemoryManager.first_free: Option<RegionFrameIndex>
    overflow_checks,  \* build profile: TRUE = arithmetic overflow panics, FALSE = it wraps
    panicked,         \* a call on the allocator has panicked
    handed,           \* history: 4 KiB frame addresses handed out and not yet given back
    last,             \* history: the last allocator call, its arguments, result and pre-state
    rb_data,          \* the ring buffer data region: bytes at offsets 0 .. data_size - 1
    consumer_pos,     \* RingBufHeader.consumer_pos
    producer_pos,     \* RingBufHeader.producer_pos
    prod,             \* the producer's position in its protocol and its reservation
    cons,             \* the position of read_event in its code and its locals
    committed,        \* history: the records the producer committed, in order
    consumed,         \* history: the records read_event advanced past, in order
    obs,              \* history: what the last read_event call saw and returned
    kind,             \* which attach point this is (kprobe, tracepoint, gpio, iio, pwm)
    attached,         \* the attach point's `attached`: Vec<AttachId>
    next_id,          \* the attach point's `next_id`
    prev_id,          \* history: the id the previous successful attach returned
    att_panicked,     \* a call on the attach point has panicked
    att_last,         \* history: the last attach-point call, its result and pre-state
    sg_pc,            \* signed envelope: what has been done with the input
    sg_in,            \* the input: a header value, or the body a byte string was signed over
    sg_data,          \* the byte string handed to the parser
    sg_parsed,        \* the result of SignedProgramHeader::from_bytes
    sg_signed,        \* the result of SignedProgram::from_bytes
    sg_verify,        \* the result of verify_hash
    rl_pc,            \* relocation: where Relocator::relocate is
    rl_insns,         \* the instructions being relocated
    rl_maps,          \* the names of the object's map table, in order
    rl_count,         \* relocation entries processed so far
    rl_result,        \* what relocate returned: "Ok" or the error
    rl_last,          \* history: the last entry processed, the instructions before it
    el_pc,            \* ELF parser: whether the constructor has run
    el_data,          \* the input byte string
    el_parser,        \* what ElfParser::new returned
    el_section,       \* what section_data returned for one of the parsed sections
    jt_program,       \* execution: the program's instructions
    jt_ctx,           \* the context
    jt_jit,           \* what JitExecutor::execute did: the compile outcome and the result
    jt_interp,        \* what the interpreter returned for the same program and context
    ev_data,          \* event parsing: the payload handed to RkEvent::from_bytes
    ev_aligned,       \* whether the payload starts at an 8-byte aligned address
    ev_event,         \* what from_bytes returned
    ev_type,          \* what event_type() returned for the parsed event (-1: not called)
    prod2,            \* ring buffer: a second producer, on another CPU
    cg_program,       \* code generation: the program handed to compile_program
    cg_code,          \* what compile_program produced: outcome, emitter, displacements
    hs_pc,            \* host machine: where the run of the emitted code is
    hs_insn,          \* the ALU instruction whose code runs between prologue and epilogue
    hs,               \* the host registers, the stack memory written, the fault flag
    hs_pre,           \* history: the host state before the instruction's sequence ran
    hs_entry          \* history: the host state at entry to the emitted code

pmm_vars == <<regions, first_free, overflow_checks, panicked, handed, last>>

rb_vars == <<rb_data, consumer_pos, producer_pos, prod, cons, committed, consumed, obs>>

att_vars == <<kind, attached, next_id, prev_id, att_panicked, att_last>>

sig_vars == <<sg_pc, sg_in, sg_data, sg_parsed, sg_signed, sg_verify>>

rel_vars == <<rl_pc, rl_insns, rl_maps, rl_count, rl_result, rl_last>>

elf_vars == <<el_pc, el_data, el_parser, el_section>>

jit_vars == <<jt_program, jt_ctx, jt_jit, jt_interp>>

ev_vars == <<ev_data, ev_aligned, ev_event, ev_type>>
mp_vars == <<prod2>>

cg_vars == <<cg_program, cg_code, hs_pc, hs_insn, hs, hs_pre, hs_entry>>

vars == <<pmm_vars, rb_vars, att_vars, sig_vars, rel_vars, elf_vars, jit_vars, ev_vars, mp_vars, cg_vars>>

\* what a call on one component leaves alone
non_pmm_vars == <<rb_vars, att_vars, sig_vars, rel_vars, elf_vars, jit_vars, ev_vars, mp_vars, cg_vars>>
non_rb_vars == <<pmm_vars, att_vars, sig_vars, rel_vars, elf_vars, jit_vars, ev_vars, mp_vars, cg_vars>>
non_att_vars == <<pmm_vars, rb_vars, sig_vars, rel_vars, elf_vars, jit_vars, ev_vars, mp_vars, cg_vars>>
non_sig_vars == <<pmm_vars, rb_vars, att_vars, rel_vars, elf_vars, jit_vars, ev_vars, mp_vars, cg_vars>>
non_rel_vars == <<pmm_vars, rb_vars, att_vars, sig_vars, elf_vars, jit_vars, ev_vars, mp_vars, cg_vars>>
non_elf_vars == <<pmm_vars, rb_vars, att_vars, sig_vars, rel_vars, jit_vars, ev_vars, mp_vars, cg_vars>>
non_jit_vars == <<pmm_vars, rb_vars, att_vars, sig_vars, rel_vars, elf_vars, ev_vars, mp_vars, cg_vars>>
non_ev_vars == <<pmm_vars, rb_vars, att_vars, sig_vars, rel_vars, elf_vars, jit_vars, mp_vars, cg_vars>>
\* what a step of the second producer leaves alone outside the ring buffer
non_mp_vars == <<pmm_vars, att_vars, sig_vars, rel_vars, elf_vars, jit_vars, ev_vars, cg_vars>>
non_cg_vars == <<pmm_vars, rb_vars, att_vars, sig_vars, rel_vars, elf_vars, jit_vars, ev_vars, mp_vars>>

(***************************************************************************)
(* Bounds of the model.  Page sizes keep their structure (4 KiB < 2 MiB <  *)
(* 1 GiB, each a whole multiple of the previous one) but the multiples are *)
(* scaled down from 512 so that a region of a dozen frames holds several   *)
(* large pages.                                                            *)
(***************************************************************************)
FramesPer2MiB == 2
HugePer1GiB == 2
MaxN == 2
WordBits == 24

Size4KiB_SIZE == 4096
Size2MiB_SIZE == FramesPer2MiB * Size4KiB_SIZE
Size1GiB_SIZE == HugePer1GiB * Size2MiB_SIZE

PageSizes == {Size4KiB_SIZE, Size2MiB_SIZE, Size1GiB_SIZE}

FramesPer1GiB == Size1GiB_SIZE \div Size4KiB_SIZE

\* usize arithmetic in a build without overflow checks: modulo 2^WordBits
USIZE == 2 ^ WordBits
WrapAdd(a, b) == (a + b) % USIZE
WrapSub(a, b) == (a - b) % USIZE
WrapMul(a, b) == (a * b) % USIZE

FrameStates == {"Unusable", "Allocated", "Free"}

None == [some |-> FALSE]
Some(v) == [some |-> TRUE, val |-> v]

Min(S) == CHOOSE x \in S : \A y \in S : x <= y

(***************************************************************************)
(* MemoryRegion: a base address and a dense 0-based array of frame states. *)
(***************************************************************************)
RegionLen(region) == Cardinality(DOMAIN region.frames)

frame_address(region, idx) ==
    IF idx >= 0 /\ idx < RegionLen(region)
    THEN Some(region.base + idx * Size4KiB_SIZE)
    ELSE None

frame_index(region, addr) ==
    IF addr >= region.base /\ addr < region.base + RegionLen(region) * Size4KiB_SIZE
    THEN Some((addr - region.base) \div Size4KiB_SIZE)
    ELSE None

NumRegions(regs) == Cardinality(DOMAIN regs)

FreeIdx(region, from) ==
    {i \in DOMAIN region.frames : i >= from /\ region.frames[i] = "Free"}

\* lib.rs: find_frame_location
find_frame_location(regs, addr) ==
    LET hit == {r \in DOMAIN regs : frame_index(regs[r], addr).some}
    IN  IF hit = {} THEN None
        ELSE LET r == Min(hit)
             IN  Some([region_idx |-> r, frame_idx |-> frame_index(regs[r], addr).val])

\* lib.rs: find_first_free_internal
find_first_free_internal(regs) ==
    LET hit == {r \in DOMAIN regs : FreeIdx(regs[r], 0) # {}}
    IN  IF hit = {} THEN None
        ELSE LET r == Min(hit)
             IN  Some([region_idx |-> r, frame_idx |-> Min(FreeIdx(regs[r], 0))])

\* mutant: the search of the subsequent regions is left out
update_first_free_same_region(regs, start_region, start_index) ==
    IF /\ start_region \in DOMAIN regs
       /\ start_index < RegionLen(regs[start_region])
       /\ FreeIdx(regs[start_region], start_index) # {}
    THEN Some([region_idx |-> start_region,
               frame_idx |-> Min(FreeIdx(regs[start_region], start_index))])
    ELSE None

\* lib.rs: update_first_free
update_first_free(regs, start_region, start_index) ==
    IF /\ start_region \in DOMAIN regs
       /\ start_index < RegionLen(regs[start_region])
       /\ FreeIdx(regs[start_region], start_index) # {}
    THEN Some([region_idx |-> start_region,
               frame_idx |-> Min(FreeIdx(regs[start_region], start_index))])
    ELSE LET hit == {r \in DOMAIN regs : r > start_region /\ FreeIdx(regs[r], 0) # {}}
         IN  IF hit = {} THEN None
             ELSE LET r == Min(hit)
                  IN  Some([region_idx |-> r, frame_idx |-> Min(FreeIdx(regs[r], 0))])

\* mutant: the filled slice is one frame too long
SetFrames_one_more(regs, r, lo, hi, state) ==
    [regs EXCEPT ![r].frames =
        [i \in DOMAIN regs[r].frames |->
            IF i >= lo /\ i <= hi + 1 THEN state ELSE regs[r].frames[i]]]

\* lib.rs 197-198, 258: writing a frame state over the index range lo..=hi
SetFrames(regs, r, lo, hi, state) ==
    [regs EXCEPT ![r].frames =
        [i \in DOMAIN regs[r].frames |->
            IF i >= lo /\ i <= hi THEN state ELSE regs[r].frames[i]]]

Panic(regs, ffopt, why) ==
    [status |-> "panic", regions |-> regs, first_free |-> ffopt, why |-> why]

\* types.rs 80-88: PhysFrame::from_start_address
from_start_address(S, addr) == IF addr % S # 0 THEN None ELSE Some(addr)

\* lib.rs 180-212: the body of `if all_free` for the window starting at current_start
AllocateWindow(regs, ff, S, n, checked, region_idx, current_start) ==
    LET small_frames_per_frame == S \div Size4KiB_SIZE
        small_frame_count == n * small_frames_per_frame
        region == regs[region_idx]
        frame_start_idx == current_start
        end_underflow == current_start + small_frame_count = 0
        frame_end_idx == WrapSub(current_start + small_frame_count, 1)
        start_addr == frame_address(region, frame_start_idx)
        n_underflow == n = 0
        last_page_start_idx ==
            WrapAdd(frame_start_idx, WrapMul(WrapSub(n, 1), small_frames_per_frame))
        end_addr == frame_address(region, last_page_start_idx)
        \* slice indexing [frame_start_idx..=frame_end_idx]
        bad_slice == \/ frame_end_idx = USIZE - 1
                     \/ frame_start_idx > frame_end_idx + 1
                     \/ frame_end_idx + 1 > RegionLen(region)
        marked == SetFrames(regs, region_idx, frame_start_idx, frame_end_idx, "Allocated")
        new_ff == IF region_idx = ff.region_idx /\ frame_start_idx <= ff.frame_idx
                  THEN update_first_free(marked, region_idx, frame_end_idx + 1)
                  ELSE Some(ff)
    IN  IF checked /\ end_underflow THEN Panic(regs, Some(ff), "subtract with overflow")
        ELSE IF ~start_addr.some THEN Panic(regs, Some(ff), "frame_address(frame_start_idx)")
        ELSE IF checked /\ n_underflow THEN Panic(regs, Some(ff), "subtract with overflow")
        ELSE IF ~end_addr.some THEN Panic(regs, Some(ff), "frame_address(last_page_start_idx)")
        ELSE IF bad_slice THEN Panic(regs, Some(ff), "slice index")
        ELSE IF ~from_start_address(S, start_addr.val).some
             THEN Panic(marked, new_ff, "start address must be aligned to page size")
        ELSE IF ~from_start_address(S, end_addr.val).some
             THEN Panic(marked, new_ff, "end address must be aligned to page size")
        ELSE [status |-> "some", regions |-> marked, first_free |-> new_ff,
              start |-> from_start_address(S, start_addr.val).val,
              end |-> from_start_address(S, end_addr.val).val]

\* mutant: the loop condition is `<`, so the window that ends at the region's end is
\* never tried
RECURSIVE ScanWindows_strict(_, _, _, _, _, _, _)
ScanWindows_strict(regs, ff, S, n, checked, region_idx, current_start) ==
    LET small_frames_per_frame == S \div Size4KiB_SIZE
        small_frame_count == n * small_frames_per_frame
        region == regs[region_idx]
        all_free == \A i \in current_start .. (current_start + small_frame_count - 1) :
                        region.frames[i] = "Free"
    IN  IF current_start + small_frame_count < RegionLen(region)
        THEN IF all_free
             THEN AllocateWindow(regs, ff, S, n, checked, region_idx, current_start)
             ELSE ScanWindows_strict(regs, ff, S, n, checked, region_idx,
                                     current_start + small_frames_per_frame)
        ELSE [status |-> "next_region"]

\* lib.rs 173-216: `while current_start + small_frame_count <= region.len()`
RECURSIVE ScanWindows(_, _, _, _, _, _, _)
ScanWindows(regs, ff, S, n, checked, region_idx, current_start) ==
    LET small_frames_per_frame == S \div Size4KiB_SIZE
        small_frame_count == n * small_frames_per_frame
        region == regs[region_idx]
        all_free == \A i \in current_start .. (current_start + small_frame_count - 1) :
                        region.frames[i] = "Free"
    IN  IF current_start + small_frame_count <= RegionLen(region)
        THEN IF all_free
             THEN AllocateWindow(regs, ff, S, n, checked, region_idx, current_start)
             ELSE ScanWindows(regs, ff, S, n, checked, region_idx,
                              current_start + small_frames_per_frame)
        ELSE [status |-> "next_region"]

\* mutant: the frame index is aligned, not the address (the region's base is ignored)
AlignedSearchStart_index_only(region, S, search_start) ==
    LET small_frames_per_frame == S \div Size4KiB_SIZE
        misalignment == search_start % small_frames_per_frame
    IN  IF misalignment = 0 THEN search_start
        ELSE search_start + (small_frames_per_frame - misalignment)

\* lib.rs 154-170: align search_start up to the page size, from the region's base address
AlignedSearchStart(region, S, search_start) ==
    LET start_addr == frame_address(region, search_start).val
        alignment == S
        misalignment == start_addr % alignment
        bytes_to_add == alignment - misalignment
        frames_to_add == bytes_to_add \div Size4KiB_SIZE
    IN  IF misalignment = 0 THEN search_start ELSE search_start + frames_to_add

\* lib.rs 140-217: `for region_idx in ff.region_idx..self.regions.len()`
RECURSIVE ScanRegions(_, _, _, _, _, _)
\* the window loop of a region ended without a window: go on with the next region
ScanRegions_after(r, regs, ff, S, n, checked, region_idx) ==
    IF r.status = "next_region"
    THEN ScanRegions(regs, ff, S, n, checked, region_idx + 1)
    ELSE r

ScanRegions(regs, ff, S, n, checked, region_idx) ==
    IF region_idx >= NumRegions(regs)
    THEN [status |-> "none", regions |-> regs, first_free |-> Some(ff)]
    ELSE LET search_start == IF region_idx = ff.region_idx THEN ff.frame_idx ELSE 0
             region == regs[region_idx]
         IN  IF search_start >= RegionLen(region)
             THEN ScanRegions(regs, ff, S, n, checked, region_idx + 1)
             ELSE ScanRegions_after(
                      ScanWindows(regs, ff, S, n, checked, region_idx,
                                  AlignedSearchStart(region, S, search_start)),
                      regs, ff, S, n, checked, region_idx)

\* lib.rs 129-220: PhysicalMemoryManager::allocate_frames_impl
allocate_frames_impl(regs, ffopt, S, n, checked) ==
    IF ~ffopt.some
    THEN [status |-> "none", regions |-> regs, first_free |-> ffopt]
    ELSE ScanRegions(regs, ffopt.val, S, n, checked, ffopt.val.region_idx)

\* types.rs 73-78: PhysFrame::containing_address
containing_address(S, addr) == addr - (addr % S)

\* mutant: the state test is is_usable() instead of `== Allocated`
deallocate_frame_4KiB_usable(st, addr) ==
    LET loc == find_frame_location(st.regions, addr)
    IN  IF ~loc.some
        THEN [ok |-> FALSE, regions |-> st.regions, first_free |-> st.first_free]
        ELSE LET l == loc.val
                 ff == st.first_free
                 is_before_first_free ==
                     IF ff.some
                     THEN \/ l.region_idx < ff.val.region_idx
                          \/ (l.region_idx = ff.val.region_idx /\ l.frame_idx < ff.val.frame_idx)
                     ELSE TRUE
             IN  IF st.regions[l.region_idx].frames[l.frame_idx] # "Unusable"
                 THEN [ok |-> TRUE,
                       regions |-> SetFrames(st.regions, l.region_idx,
                                             l.frame_idx, l.frame_idx, "Free"),
                       first_free |-> IF is_before_first_free THEN Some(l) ELSE ff]
                 ELSE [ok |-> FALSE, regions |-> st.regions, first_free |-> st.first_free]

\* lib.rs 251-277: PhysicalFrameAllocator<Size4KiB>::deallocate_frame
deallocate_frame_4KiB(st, addr) ==
    LET loc == find_frame_location(st.regions, addr)
    IN  IF ~loc.some
        THEN [ok |-> FALSE, regions |-> st.regions, first_free |-> st.first_free]
        ELSE LET l == loc.val
                 ff == st.first_free
                 is_before_first_free ==
                     IF ff.some
                     THEN \/ l.region_idx < ff.val.region_idx
                          \/ (l.region_idx = ff.val.region_idx /\ l.frame_idx < ff.val.frame_idx)
                     ELSE TRUE
             IN  IF st.regions[l.region_idx].frames[l.frame_idx] = "Allocated"
                 THEN [ok |-> TRUE,
                       regions |-> SetFrames(st.regions, l.region_idx,
                                             l.frame_idx, l.frame_idx, "Free"),
                       first_free |-> IF is_before_first_free THEN Some(l) ELSE ff]
                 ELSE [ok |-> FALSE, regions |-> st.regions, first_free |-> st.first_free]

\* lib.rs 285-294: PhysicalFrameAllocator<Size2MiB>::deallocate_frame, the loop from i on
RECURSIVE deallocate_frame_2MiB_from(_, _, _)
\* the `?` on the result r of sub-frame i: stop at the first failure
deallocate_frame_2MiB_try(r, addr, i) ==
    IF r.ok THEN deallocate_frame_2MiB_from(r, addr, i + 1) ELSE r

deallocate_frame_2MiB_from(st, addr, i) ==
    IF i >= Size2MiB_SIZE \div Size4KiB_SIZE
    THEN [ok |-> TRUE, regions |-> st.regions, first_free |-> st.first_free]
    ELSE deallocate_frame_2MiB_try(
             deallocate_frame_4KiB(st,
                 containing_address(Size4KiB_SIZE, addr + i * Size4KiB_SIZE)),
             addr, i)

\* mutant: the loop over the 4 KiB sub-frames starts at 1
deallocate_frame_2MiB_skip_first(st, addr) == deallocate_frame_2MiB_from(st, addr, 1)

deallocate_frame_2MiB(st, addr) == deallocate_frame_2MiB_from(st, addr, 0)

\* lib.rs 302-311: PhysicalFrameAllocator<Size1GiB>::deallocate_frame, the loop from i on
RECURSIVE deallocate_frame_1GiB_from(_, _, _)
\* the `?` on the result r of 2 MiB frame i: stop at the first failure
deallocate_frame_1GiB_try(r, addr, i) ==
    IF r.ok THEN deallocate_frame_1GiB_from(r, addr, i + 1) ELSE r

deallocate_frame_1GiB_from(st, addr, i) ==
    IF i >= Size1GiB_SIZE \div Size2MiB_SIZE
    THEN [ok |-> TRUE, regions |-> st.regions, first_free |-> st.first_free]
    ELSE deallocate_frame_1GiB_try(
             deallocate_frame_2MiB(st,
                 containing_address(Size2MiB_SIZE, addr + i * Size2MiB_SIZE)),
             addr, i)

deallocate_frame_1GiB(st, addr) == deallocate_frame_1GiB_from(st, addr, 0)

deallocate_frame(S, st, addr) ==
    IF S = Size4KiB_SIZE THEN deallocate_frame_4KiB(st, addr)
    ELSE IF S = Size2MiB_SIZE THEN deallocate_frame_2MiB(st, addr)
    ELSE deallocate_frame_1GiB(st, addr)

\* lib.rs 232-243 with the iterator of types.rs 111-122: deallocate_frames over start..=end
RECURSIVE deallocate_frames(_, _, _, _)
\* the `?` on the result r of the frame at start: stop at the first failure
deallocate_frames_try(S, r, start, end) ==
    IF r.ok THEN deallocate_frames(S, r, containing_address(S, start + S), end) ELSE r

deallocate_frames(S, st, start, end) ==
    IF start > end
    THEN [ok |-> TRUE, regions |-> st.regions, first_free |-> st.first_free]
    ELSE deallocate_frames_try(S, deallocate_frame(S, st, start), start, end)

(***************************************************************************)
(* Ring buffer (userspace/rk_bridge/src/ringbuf.rs).                       *)
(* The data region is a byte array; a record is an 8-byte header (the      *)
(* little-endian u32 `len` with the busy and discard bits, then pg_off)    *)
(* followed by the payload, records being 8-byte aligned.                  *)
(***************************************************************************)
DataSizeLog2 == 5
MaxProducerPos == 40
LongPayload == 13
ShortPayload == 5

\* ringbuf.rs 83-85, 148: data_size (a power of two) and mask = data_size - 1
data_size == 2 ^ DataSizeLog2
\* x & mask, for mask = data_size - 1 and data_size a power of two
AndMask(x) == x % data_size

\* size_of::<RecordHeader>(): two u32
RecordHeaderSize == 8

PayloadLens == {0, ShortPayload, LongPayload}

\* the payload of the record reserved at pos: len bytes, different at every index
PayloadOf(pos, len) == [i \in 1 .. len |-> (pos + i) % 256]

\* the u32 `len` as its four little-endian bytes; bit 31 is bit 7 of byte 3
LeBytes(len, busy, discard) ==
    <<len % 256, (len \div 256) % 256, (len \div 65536) % 256,
      ((len \div 16777216) % 64) + (IF discard THEN 64 ELSE 0) + (IF busy THEN 128 ELSE 0)>>

\* ringbuf.rs 186-190: the RecordHeader.len read at record_offset
HeaderLenAt(mem, record_offset) ==
    <<mem[record_offset], mem[record_offset + 1], mem[record_offset + 2],
      mem[record_offset + 3]>>

\* mutant: the busy test looks at the discard bit
is_busy_wrong_bit(len) == (len[4] \div 64) % 2 = 1

\* ringbuf.rs 41-43: RecordHeader::is_busy
is_busy(len) == (len[4] \div 128) % 2 = 1

\* ringbuf.rs 46-48: RecordHeader::is_discarded
is_discarded(len) == (len[4] \div 64) % 2 = 1

\* ringbuf.rs 51-53: RecordHeader::data_len
data_len(len) == len[1] + len[2] * 256 + len[3] * 65536 + (len[4] % 64) * 16777216

\* ringbuf.rs 201: (header_size + data_len + 7) & !7
record_size(dlen) == ((RecordHeaderSize + dlen + 7) \div 8) * 8

\* mutant: the bytes after the wrap point are not copied (they stay 0)
CopyPayload_first_chunk_only(mem, data_offset, dlen) ==
    LET first_chunk == IF dlen < data_size - data_offset THEN dlen
                       ELSE data_size - data_offset
    IN  [i \in 1 .. dlen |->
            IF i <= first_chunk THEN mem[data_offset + i - 1] ELSE 0]

\* ringbuf.rs 207-224: the payload copied out of the data region in two chunks
CopyPayload(mem, data_offset, dlen) ==
    LET first_chunk == IF dlen < data_size - data_offset THEN dlen
                       ELSE data_size - data_offset
    IN  [i \in 1 .. dlen |->
            IF i <= first_chunk THEN mem[data_offset + i - 1]
            ELSE mem[i - first_chunk - 1]]

\* a store of `bytes` at offset `at`, wrapping at the mask
WriteBytes(mem, at, bytes) ==
    [a \in DOMAIN mem |->
        IF AndMask(a - at) < Len(bytes) THEN bytes[AndMask(a - at) + 1] ELSE mem[a]]

ProdIdle == [pc |-> "idle", pos |-> 0, len |-> 0]
ConsIdle == [pc |-> "idle", entry |-> 0, cons_pos |-> 0, prod_pos |-> 0,
             len |-> <<0, 0, 0, 0>>, data |-> <<>>, rec |-> 0]

\* history: the index in `committed` of the record committed at position pos, 0 if none
CommittedAt(pos) ==
    IF \E i \in 1 .. Len(committed) : committed[i].pos = pos
    THEN CHOOSE i \in 1 .. Len(committed) : committed[i].pos = pos
    ELSE 0

\* the mapping right after the ring-buffer map is created: zeroed pages
RbInit ==
    /\ rb_data = [a \in 0 .. (data_size - 1) |-> 0]
    /\ consumer_pos = 0
    /\ producer_pos = 0
    /\ prod = ProdIdle
    /\ prod2 = ProdIdle
    /\ cons = ConsIdle
    /\ committed = <<>>
    /\ consumed = <<>>
    /\ obs = [busy |-> FALSE, entry |-> 0, result |-> None, pos_after |-> 0, rec |-> 0]

(***************************************************************************)
(* Attach points (kernel_bpf/src/attach/{kprobe,tracepoint,gpio,iio,pwm}). *)
(* The five attach points keep the same registry, a list of attached ids   *)
(* and a next-id counter, and have the same attach and detach.  AttachId   *)
(* and next_id are u32 in the source; here they count modulo IdLimit.     *)
(***************************************************************************)
IdLimit == 5
MaxAttached == 2
MaxPrograms == 2

AttachIds == 0 .. (IdLimit - 1)
AttachKinds == {"kprobe", "tracepoint", "gpio", "iio", "pwm"}
Programs == 1 .. MaxPrograms

\* Vec::iter().position(|&i| i == id): the first index (1-based) holding id, 0 if none
PositionOf(list, id) ==
    IF \E i \in 1 .. Len(list) : list[i] = id
    THEN Min({i \in 1 .. Len(list) : list[i] = id})
    ELSE 0

\* variant: the element in front is removed, whatever idx is
RemoveAt_front(list, idx) ==
    [i \in 1 .. (Len(list) - 1) |-> list[i + 1]]

\* Vec::remove(idx): the list without its element at idx (1-based)
RemoveAt(list, idx) ==
    [i \in 1 .. (Len(list) - 1) |-> IF i < idx THEN list[i] ELSE list[i + 1]]

\* kprobe.rs 40-52 (and the other four constructors): empty list, next_id = 1
AttConstruct(k) ==
    /\ kind = k
    /\ attached = <<>>
    /\ next_id = 1
    /\ prev_id = None
    /\ att_panicked = FALSE
    /\ att_last = [op |-> "new", id |-> 0, ok |-> TRUE,
                   pre |-> <<>>, pre_next |-> 1, prev |-> None,
                   undo |-> FALSE, base |-> <<>>, base_next |-> 0]

\* kprobe.rs 78: let id = AttachId(self.next_id)
attach_id(next) == next

\* kprobe.rs 77-87: attach(program); the program is not looked at.  `self.next_id += 1` overflows at the top of the
\* id range: it panics with overflow checks and wraps without them.
Attach(p) ==
    /\ ~att_panicked
    /\ Len(attached) < MaxAttached
    /\ IF next_id + 1 >= IdLimit /\ overflow_checks
       THEN /\ att_panicked' = TRUE
            /\ UNCHANGED <<attached, next_id, prev_id>>
            /\ att_last' = [op |-> "attach", id |-> 0, ok |-> FALSE,
                            pre |-> attached, pre_next |-> next_id, prev |-> prev_id,
                            undo |-> FALSE, base |-> <<>>, base_next |-> 0]
       ELSE /\ next_id' = (next_id + 1) % IdLimit
            /\ attached' = Append(attached, attach_id(next_id))
            /\ prev_id' = Some(attach_id(next_id))
            /\ att_last' = [op |-> "attach", id |-> attach_id(next_id), ok |-> TRUE,
                            pre |-> attached, pre_next |-> next_id, prev |-> prev_id,
                            undo |-> FALSE, base |-> <<>>, base_next |-> 0]
            /\ UNCHANGED att_panicked
    /\ UNCHANGED kind
    /\ UNCHANGED non_att_vars

\* kprobe.rs 89-96: detach(id)
Detach(id) ==
    /\ ~att_panicked
    /\ \E idx \in {PositionOf(attached, id)} :
          /\ attached' = IF idx # 0 THEN RemoveAt(attached, idx) ELSE attached
          /\ \E undo \in {att_last.op = "attach" /\ att_last.ok /\ att_last.id = id} :
                att_last' = [op |-> "detach", id |-> id, ok |-> idx # 0,
                             pre |-> attached, pre_next |-> next_id, prev |-> prev_id,
                             undo |-> undo,
                             base |-> IF undo THEN att_last.pre ELSE <<>>,
                             base_next |-> IF undo THEN att_last.pre_next ELSE 0]
    /\ UNCHANGED <<kind, next_id, prev_id, att_panicked>>
    /\ UNCHANGED non_att_vars

AttNext ==
    \/ \E p \in Programs : Attach(p)
    \/ \E id \in AttachIds : Detach(id)

(***************************************************************************)
(* Signed envelope (kernel_bpf/src/signing/{mod,signature,hash}.rs).       *)
(* Byte strings and byte arrays are sequences of 0 .. 255.                 *)
(***************************************************************************)
MaxBodyLen == 2

\* hash.rs 6, signature.rs 8, 11, 14
SHA3_256_LEN == 32
SIGNATURE_LEN == 64
SIGNER_ID_LEN == 8
HEADER_SIZE == 4 + 1 + 1 + 2 + SHA3_256_LEN + SIGNATURE_LEN + SIGNER_ID_LEN + 8

\* mod.rs 85, 88: b"RBPF" and the format version
SIGNED_PROGRAM_MAGIC == <<82, 66, 80, 70>>
SIGNING_VERSION == 1

\* bit k of the byte x
Bit(x, k) == (x \div (2 ^ k)) % 2

\* a ^ b on bytes
Xor8(a, b) ==
    LET x(k) == ((Bit(a, k) + Bit(b, k)) % 2) * (2 ^ k)
    IN  x(0) + x(1) + x(2) + x(3) + x(4) + x(5) + x(6) + x(7)

\* a | b on bytes
Or8(a, b) ==
    LET o(k) == (IF Bit(a, k) + Bit(b, k) > 0 THEN 1 ELSE 0) * (2 ^ k)
    IN  o(0) + o(1) + o(2) + o(3) + o(4) + o(5) + o(6) + o(7)

\* u64::to_le_bytes, least significant byte first (n bytes)
RECURSIVE to_le_bytes(_, _)
to_le_bytes(t, n) ==
    IF n = 0 THEN <<>> ELSE <<t % 256>> \o to_le_bytes(t \div 256, n - 1)

\* u64::from_le_bytes
RECURSIVE from_le_bytes(_)
from_le_bytes(bytes) ==
    IF bytes = <<>> THEN 0 ELSE bytes[1] + 256 * from_le_bytes(Tail(bytes))

\* mod.rs 108-115: SignatureFlags::from_byte and as_byte keep the raw byte
SignatureFlags_from_byte(b) == [bits |-> b]
SignatureFlags_as_byte(flags) == flags.bits

\* hash.rs 21-28: ProgramHash::from_slice
ProgramHash_from_slice(slice) ==
    IF Len(slice) # SHA3_256_LEN THEN None ELSE Some(slice)

\* signature.rs 27-34: Signature::from_slice
Signature_from_slice(slice) ==
    IF Len(slice) # SIGNATURE_LEN THEN None ELSE Some(slice)

\* hash.rs 33-35, 70-: the digest of the program data.  The permutation is not
\* modelled: the digest is a function of the data that is one-to-one on the bodies
\* used here (its length, then padding, then the data's bytes at the end).
keccak256(data) ==
    [i \in 1 .. SHA3_256_LEN |->
        IF i = 1 THEN Len(data)
        ELSE IF i > SHA3_256_LEN - Len(data) THEN data[i - (SHA3_256_LEN - Len(data))]
        ELSE 90]

ProgramHash_compute(data) == keccak256(data)

\* variant: the last byte pair is not compared
ProgramHash_matches_but_last(a, b) ==
    LET n == SHA3_256_LEN - 1
    IN  \A i \in 1 .. n : Xor8(a[i], b[i]) = 0

\* hash.rs 44-49: the loop `result |= a ^ b` over the zipped bytes from index i on,
\* then `result == 0`
RECURSIVE ProgramHash_matches_acc(_, _, _, _)
ProgramHash_matches_acc(a, b, i, result) ==
    IF i > Len(a) \/ i > Len(b) THEN result = 0
    ELSE \E r \in {Or8(result, Xor8(a[i], b[i]))} : ProgramHash_matches_acc(a, b, i + 1, r)

\* hash.rs 43-50: ProgramHash::matches
ProgramHash_matches(a, b) == ProgramHash_matches_acc(a, b, 1, 0)

NoHeader == [version |-> 0, flags |-> [bits |-> 0], program_hash |-> <<>>,
             signature |-> <<>>, signer_id |-> <<>>, timestamp |-> 0]
SigningErr(e) == [ok |-> FALSE, err |-> e, header |-> NoHeader]
SigningOk(h) == [ok |-> TRUE, err |-> "", header |-> h]

\* variant: the version is checked before the magic
SignedProgramHeader_from_bytes_version_first(data) ==
    IF Len(data) < HEADER_SIZE THEN SigningErr("DataTooShort")
    ELSE IF data[5] # SIGNING_VERSION THEN SigningErr("UnsupportedVersion")
    ELSE IF SubSeq(data, 1, 4) # SIGNED_PROGRAM_MAGIC THEN SigningErr("InvalidMagic")
    ELSE SigningOk([version |-> data[5], flags |-> SignatureFlags_from_byte(data[6]),
             program_hash |-> SubSeq(data, 9, 8 + SHA3_256_LEN),
             signature |-> SubSeq(data, 9 + SHA3_256_LEN, 8 + SHA3_256_LEN + SIGNATURE_LEN),
             signer_id |-> SubSeq(data, HEADER_SIZE - 15, HEADER_SIZE - 8),
             timestamp |-> from_le_bytes(SubSeq(data, HEADER_SIZE - 7, HEADER_SIZE))])

\* signature.rs 71-121: SignedProgramHeader::from_bytes (data[a..b] is SubSeq(data, a + 1, b))
SignedProgramHeader_from_bytes(data) ==
    IF Len(data) < HEADER_SIZE THEN SigningErr("DataTooShort")
    ELSE IF SubSeq(data, 1, 4) # SIGNED_PROGRAM_MAGIC THEN SigningErr("InvalidMagic")
    ELSE IF data[5] # SIGNING_VERSION THEN SigningErr("UnsupportedVersion")
    ELSE LET flags == SignatureFlags_from_byte(data[6])
             program_hash == ProgramHash_from_slice(SubSeq(data, 9, 8 + SHA3_256_LEN))
             sig_start == 8 + SHA3_256_LEN
             signature == Signature_from_slice(
                              SubSeq(data, sig_start + 1, sig_start + SIGNATURE_LEN))
             id_start == sig_start + SIGNATURE_LEN
             signer_id == SubSeq(data, id_start + 1, id_start + SIGNER_ID_LEN)
             ts_start == id_start + SIGNER_ID_LEN
             timestamp == from_le_bytes(SubSeq(data, ts_start + 1, ts_start + 8))
         IN  IF ~program_hash.some THEN SigningErr("HashMismatch")
             ELSE IF ~signature.some THEN SigningErr("InvalidSignature")
             ELSE SigningOk([version |-> data[5], flags |-> flags,
                      program_hash |-> program_hash.val, signature |-> signature.val,
                      signer_id |-> signer_id, timestamp |-> timestamp])

\* variant: only the three defined flag bits are written
SignedProgramHeader_to_bytes_defined_flags(h) ==
    SIGNED_PROGRAM_MAGIC \o <<h.version, SignatureFlags_as_byte(h.flags) % 8, 0, 0>>
        \o h.program_hash \o h.signature \o h.signer_id \o to_le_bytes(h.timestamp, 8)

\* signature.rs 124-155: SignedProgramHeader::to_bytes
SignedProgramHeader_to_bytes(h) ==
    SIGNED_PROGRAM_MAGIC \o <<h.version, SignatureFlags_as_byte(h.flags), 0, 0>>
        \o h.program_hash \o h.signature \o h.signer_id \o to_le_bytes(h.timestamp, 8)

\* signature.rs 169-177: SignedProgram::from_bytes
SignedProgram_from_bytes(data) ==
    LET header == SignedProgramHeader_from_bytes(data)
    IN  IF ~header.ok THEN [ok |-> FALSE, err |-> header.err, header |-> NoHeader,
                            program_data |-> <<>>]
        ELSE [ok |-> TRUE, err |-> "", header |-> header.header,
              program_data |-> SubSeq(data, HEADER_SIZE + 1, Len(data))]

\* signature.rs 190-197: SignedProgram::verify_hash
SignedProgram_verify_hash(signed) ==
    LET computed == ProgramHash_compute(signed.program_data)
    IN  IF ProgramHash_matches(computed, signed.header.program_hash) THEN "Ok" ELSE "HashMismatch"

\* byte arrays and bodies the envelopes are built from
Fill(n, b) == [i \in 1 .. n |-> b]
Ramp(n, k) == [i \in 1 .. n |-> (k + i) % 256]
BodyBytes == {7, 248}
RECURSIVE BodiesOfLen(_)
BodiesOfLen(n) ==
    IF n = 0 THEN {<<>>}
    ELSE {Append(b, x) : b \in BodiesOfLen(n - 1), x \in BodyBytes}
Bodies == UNION {BodiesOfLen(n) : n \in 0 .. MaxBodyLen}

\* the body with its last byte xor 0xFF
FlipLast(body) ==
    IF body = <<>> THEN body
    ELSE [body EXCEPT ![Len(body)] = Xor8(body[Len(body)], 255)]

\* the hash with the byte at position i xor 0xFF
FlipAt(hash, i) == [hash EXCEPT ![i] = Xor8(hash[i], 255)]

Headers ==
    [version : {0, SIGNING_VERSION, 2, 255},
     flags : {[bits |-> b] : b \in {0, 2, 255}},
     program_hash : {Fill(SHA3_256_LEN, 0), Ramp(SHA3_256_LEN, 0)},
     signature : {Fill(SIGNATURE_LEN, 42), Ramp(SIGNATURE_LEN, 100)},
     signer_id : {Ramp(SIGNER_ID_LEN, 0)},
     timestamp : {0, 1234567890}]

Magics == {SIGNED_PROGRAM_MAGIC, <<88, 66, 80, 70>>, <<82, 66, 80, 88>>}

\* a header in front of a body, the magic replaced and the whole cut to `cut` bytes
Envelope(magic, h, body, cut) ==
    LET all == magic \o SubSeq(SignedProgramHeader_to_bytes(h), 5, HEADER_SIZE) \o body
    IN  SubSeq(all, 1, IF cut < Len(all) THEN cut ELSE Len(all))

NoSigned == [ok |-> FALSE, err |-> "", header |-> NoHeader, program_data |-> <<>>]

\* nothing is being parsed
SigIdle ==
    /\ sg_pc = "idle"
    /\ sg_in = [header |-> NoHeader, body |-> None]
    /\ sg_data = <<>>
    /\ sg_parsed = SigningErr("")
    /\ sg_signed = NoSigned
    /\ sg_verify = ""

\* a header value to serialize
SigFromHeader ==
    /\ sg_pc = "header"
    /\ \E h \in Headers : sg_in = [header |-> h, body |-> None]
    /\ sg_data = <<>>
    /\ sg_parsed = SigningErr("")
    /\ sg_signed = NoSigned
    /\ sg_verify = ""

\* an input byte string: a signed body, possibly tampered with or cut short
SigFromBytes ==
    /\ sg_pc = "bytes"
    /\ \E body \in Bodies, version \in {SIGNING_VERSION, 2}, magic \in Magics,
          tamper \in {"none", "body", "hash_first", "hash_last"},
          cut \in {0, 3, HEADER_SIZE - 1, HEADER_SIZE, HEADER_SIZE + MaxBodyLen + 1} :
          LET hash == ProgramHash_compute(body)
              h == [version |-> version, flags |-> [bits |-> 0],
                    program_hash |-> IF tamper = "hash_first" THEN FlipAt(hash, 1)
                                     ELSE IF tamper = "hash_last"
                                     THEN FlipAt(hash, SHA3_256_LEN)
                                     ELSE hash,
                    signature |-> Fill(SIGNATURE_LEN, 0),
                    signer_id |-> Ramp(SIGNER_ID_LEN, 0), timestamp |-> 1700000000]
          IN  /\ sg_in = [header |-> NoHeader,
                          body |-> IF tamper \in {"none", "body"} THEN Some(body) ELSE None]
              /\ sg_data = Envelope(magic, h, IF tamper = "body" THEN FlipLast(body)
                                              ELSE body, cut)
    /\ sg_parsed = SigningErr("")
    /\ sg_signed = NoSigned
    /\ sg_verify = ""

\* header.to_bytes()
ToBytes ==
    /\ sg_pc = "header"
    /\ sg_data' = SignedProgramHeader_to_bytes(sg_in.header)
    /\ sg_pc' = "bytes"
    /\ UNCHANGED <<sg_in, sg_parsed, sg_signed, sg_verify>>
    /\ UNCHANGED non_sig_vars

\* SignedProgramHeader::from_bytes(&data)
ParseHeader ==
    /\ sg_pc = "bytes"
    /\ sg_parsed' = SignedProgramHeader_from_bytes(sg_data)
    /\ sg_pc' = "parsed"
    /\ UNCHANGED <<sg_in, sg_data, sg_signed, sg_verify>>
    /\ UNCHANGED non_sig_vars

\* SignedProgram::from_bytes(&data)
ParseProgram ==
    /\ sg_pc = "parsed"
    /\ sg_signed' = SignedProgram_from_bytes(sg_data)
    /\ sg_pc' = "program"
    /\ UNCHANGED <<sg_in, sg_data, sg_parsed, sg_verify>>
    /\ UNCHANGED non_sig_vars

\* signed.verify_hash()
VerifyHash ==
    /\ sg_pc = "program"
    /\ sg_signed.ok
    /\ sg_verify' = SignedProgram_verify_hash(sg_signed)
    /\ sg_pc' = "verified"
    /\ UNCHANGED <<sg_in, sg_data, sg_parsed, sg_signed>>
    /\ UNCHANGED non_sig_vars

SigNext ==
    \/ ToBytes
    \/ ParseHeader
    \/ ParseProgram
    \/ VerifyHash

(***************************************************************************)
(* Relocation (kernel_bpf/src/loader/reloc.rs).  An instruction is the     *)
(* record of its four fields; `regs` is the byte dst | src << 4.           *)
(***************************************************************************)
MaxRelocs == 2

\* reloc.rs 15-18: relocation types
R_BPF_64_64 == 1
R_BPF_64_ABS64 == 2
R_BPF_64_ABS32 == 3
R_BPF_64_32 == 10

Insn(opcode, regs, offset, imm) ==
    [opcode |-> opcode, regs |-> regs, offset |-> offset, imm |-> imm]

\* the low four and the high four bits of `regs`
dst_reg(insn) == insn.regs % 16
src_reg(insn) == insn.regs \div 16

\* a wide load is recognized by the opcode 0x18
is_wide(insn) == insn.opcode = 24

\* reloc.rs 147-213: Relocator::helper_name_to_id
HelperIds ==
        "bpf_map_lookup_elem" :> 1
        @@ "bpf_map_update_elem" :> 2
        @@ "bpf_map_delete_elem" :> 3
        @@ "bpf_probe_read" :> 4
        @@ "bpf_ktime_get_ns" :> 5
        @@ "bpf_trace_printk" :> 6
        @@ "bpf_get_prandom_u32" :> 7
        @@ "bpf_get_smp_processor_id" :> 8
        @@ "bpf_skb_store_bytes" :> 9
        @@ "bpf_l3_csum_replace" :> 10
        @@ "bpf_l4_csum_replace" :> 11
        @@ "bpf_tail_call" :> 12
        @@ "bpf_clone_redirect" :> 13
        @@ "bpf_get_current_pid_tgid" :> 14
        @@ "bpf_get_current_uid_gid" :> 15
        @@ "bpf_get_current_comm" :> 16
        @@ "bpf_get_cgroup_classid" :> 17
        @@ "bpf_skb_vlan_push" :> 18
        @@ "bpf_skb_vlan_pop" :> 19
        @@ "bpf_skb_get_tunnel_key" :> 20
        @@ "bpf_skb_set_tunnel_key" :> 21
        @@ "bpf_perf_event_read" :> 22
        @@ "bpf_redirect" :> 23
        @@ "bpf_get_route_realm" :> 24
        @@ "bpf_perf_event_output" :> 25
        @@ "bpf_skb_load_bytes" :> 26
        @@ "bpf_get_stackid" :> 27
        @@ "bpf_csum_diff" :> 28
        @@ "bpf_skb_get_tunnel_opt" :> 29
        @@ "bpf_skb_set_tunnel_opt" :> 30
        @@ "bpf_skb_change_proto" :> 31
        @@ "bpf_skb_change_type" :> 32
        @@ "bpf_skb_under_cgroup" :> 33
        @@ "bpf_get_hash_recalc" :> 34
        @@ "bpf_get_current_task" :> 35
        @@ "bpf_probe_write_user" :> 36
        @@ "bpf_current_task_under_cgroup" :> 37
        @@ "bpf_skb_change_tail" :> 38
        @@ "bpf_skb_pull_data" :> 39
        @@ "bpf_csum_update" :> 40
        @@ "bpf_set_hash_invalid" :> 41
        @@ "bpf_get_numa_node_id" :> 42
        @@ "bpf_skb_change_head" :> 43
        @@ "bpf_xdp_adjust_head" :> 44
        @@ "bpf_probe_read_str" :> 45
        @@ "bpf_get_socket_cookie" :> 46
        @@ "bpf_get_socket_uid" :> 47
        @@ "bpf_set_hash" :> 48
        @@ "bpf_setsockopt" :> 49
        @@ "bpf_skb_adjust_room" :> 50
        @@ "bpf_ringbuf_output" :> 130
        @@ "bpf_ringbuf_reserve" :> 131
        @@ "bpf_ringbuf_submit" :> 132
        @@ "bpf_ringbuf_discard" :> 133
        @@ "bpf_ringbuf_query" :> 134
        @@ "bpf_motor_emergency_stop" :> 200
        @@ "bpf_timeseries_push" :> 201
        @@ "bpf_sensor_last_timestamp" :> 202

helper_name_to_id(name) ==
    IF name \in DOMAIN HelperIds THEN Some(HelperIds[name]) ELSE None

\* a[i] for the 0-based slot i, and the array with slot i replaced
At(insns, i) == insns[i + 1]
Put(insns, i, insn) == [insns EXCEPT ![i + 1] = insn]

\* reloc.rs 106-110: the position of the first map named sym_name
MapPositions(maps, sym_name) == {k \in 0 .. (Len(maps) - 1) : maps[k + 1] = sym_name}
MapPosition(maps, sym_name) ==
    IF MapPositions(maps, sym_name) = {} THEN None
    ELSE Some(CHOOSE k \in MapPositions(maps, sym_name) :
                  \A j \in MapPositions(maps, sym_name) : k <= j)

\* variant: the whole register byte is overwritten
relocate_map_ref_clear_dst(maps, insns, insn_idx, sym_name) ==
    LET map_idx == MapPosition(maps, sym_name)
    IN  IF ~map_idx.some THEN [err |-> "UndefinedSymbol", insns |-> insns]
        ELSE LET insn == [At(insns, insn_idx) EXCEPT !.regs = 16, !.imm = map_idx.val]
                 first == Put(insns, insn_idx, insn)
             IN  IF insn_idx + 1 < Len(insns) /\ is_wide(At(first, insn_idx))
                 THEN [err |-> "",
                       insns |-> Put(first, insn_idx + 1,
                                     [At(first, insn_idx + 1) EXCEPT !.imm = 0])]
                 ELSE [err |-> "", insns |-> first]

\* reloc.rs 98-127: Relocator::relocate_map_ref
relocate_map_ref(maps, insns, insn_idx, sym_name) ==
    LET map_idx == MapPosition(maps, sym_name)
    IN  IF ~map_idx.some THEN [err |-> "UndefinedSymbol", insns |-> insns]
        ELSE LET insn == [At(insns, insn_idx) EXCEPT
                              !.regs = (At(insns, insn_idx).regs % 16) + 16,
                              !.imm = map_idx.val]
                 first == Put(insns, insn_idx, insn)
             IN  IF insn_idx + 1 < Len(insns) /\ is_wide(At(first, insn_idx))
                 THEN [err |-> "",
                       insns |-> Put(first, insn_idx + 1,
                                     [At(first, insn_idx + 1) EXCEPT !.imm = 0])]
                 ELSE [err |-> "", insns |-> first]

\* reloc.rs 130-144: Relocator::relocate_call
relocate_call(insns, insn_idx, sym_name) ==
    LET helper_id == helper_name_to_id(sym_name)
    IN  IF helper_id.some
        THEN [err |-> "",
              insns |-> Put(insns, insn_idx, [At(insns, insn_idx) EXCEPT !.imm = helper_id.val])]
        ELSE [err |-> "", insns |-> insns]

\* the instruction arrays, map tables, symbol table and relocation entries drawn from
RelPrograms ==
    {<<Insn(24, 33, 0, 77), Insn(0, 0, 0, 99), Insn(149, 0, 0, 0)>>,
     <<Insn(183, 163, 4, 5), Insn(24, 146, 0, 77)>>,
     <<Insn(133, 0, 0, -1), Insn(149, 0, 0, 0)>>}
RelMapTables == {<<>>, <<"a">>, <<"a", "b">>, <<"b", "a", "b">>}
RelSymbols == <<"a", "b", "c", "bpf_ktime_get_ns", "unknown_helper">>
RelEntries ==
    [offset : {0, 8, 12, 24}, sym_idx : 0 .. Len(RelSymbols),
     rel_type : {R_BPF_64_64, R_BPF_64_ABS64, R_BPF_64_ABS32, R_BPF_64_32, 99}]

NoReloc == [offset |-> 0, sym_idx |-> 0, rel_type |-> 0]

\* no relocation under way
RelIdle ==
    /\ rl_pc = "idle"
    /\ rl_insns = <<>>
    /\ rl_maps = <<>>
    /\ rl_count = 0
    /\ rl_result = ""
    /\ rl_last = [reloc |-> NoReloc, pre |-> <<>>, err |-> ""]

\* Relocator::new(maps) and the arguments of relocate
RelNew ==
    /\ rl_pc = "start"
    /\ rl_insns \in RelPrograms
    /\ rl_maps \in RelMapTables
    /\ rl_count = 0
    /\ rl_result = ""
    /\ rl_last = [reloc |-> NoReloc, pre |-> <<>>, err |-> ""]

\* reloc.rs 39-58: the section is looked up and its relocations and the symbols are read
RelocateStart ==
    /\ rl_pc = "start"
    /\ \E section_found \in BOOLEAN, relocs_empty \in BOOLEAN :
          IF ~section_found
          THEN rl_pc' = "done" /\ rl_result' = "InvalidRelocation"
          ELSE IF relocs_empty
          THEN rl_pc' = "done" /\ rl_result' = "Ok"
          ELSE rl_pc' = "loop" /\ rl_result' = ""
    /\ UNCHANGED <<rl_insns, rl_maps, rl_count, rl_last>>
    /\ UNCHANGED non_rel_vars

\* reloc.rs 61-92: the loop body for the next relocation entry
RelocateEntry ==
    /\ rl_pc = "loop"
    /\ rl_count < MaxRelocs
    /\ \E reloc \in RelEntries :
          LET insn_idx == reloc.offset \div 8
              sym_name == RelSymbols[reloc.sym_idx + 1]
              out == IF insn_idx >= Len(rl_insns)
                     THEN [err |-> "InvalidRelocation", insns |-> rl_insns]
                     ELSE IF reloc.sym_idx >= Len(RelSymbols)
                     THEN [err |-> "UndefinedSymbol", insns |-> rl_insns]
                     ELSE IF reloc.rel_type = R_BPF_64_64
                     THEN relocate_map_ref(rl_maps, rl_insns, insn_idx, sym_name)
                     ELSE IF reloc.rel_type = R_BPF_64_32
                     THEN relocate_call(rl_insns, insn_idx, sym_name)
                     ELSE [err |-> "", insns |-> rl_insns]
          IN  /\ rl_insns' = out.insns
              /\ rl_last' = [reloc |-> reloc, pre |-> rl_insns, err |-> out.err]
              /\ IF out.err # ""
                 THEN rl_pc' = "done" /\ rl_result' = out.err
                 ELSE UNCHANGED <<rl_pc, rl_result>>
    /\ rl_count' = rl_count + 1
    /\ UNCHANGED rl_maps
    /\ UNCHANGED non_rel_vars

\* reloc.rs 94: the entries are exhausted, Ok(insns)
RelocateReturn ==
    /\ rl_pc = "loop"
    /\ rl_count >= 1
    /\ rl_pc' = "done"
    /\ rl_result' = "Ok"
    /\ UNCHANGED <<rl_insns, rl_maps, rl_count, rl_last>>
    /\ UNCHANGED non_rel_vars

RelNext ==
    \/ RelocateStart
    \/ RelocateEntry
    \/ RelocateReturn

(***************************************************************************)
(* ELF parser (kernel_bpf/src/loader/elf.rs).  The input is a sequence of  *)
(* bytes; data[k] of the source is Byte(data, k).  The machine word and    *)
(* the u64 fields are scaled to ElfWordBits bits: a field whose upper five *)
(* bytes are zero keeps its value, one whose upper five bytes are 0xFF     *)
(* lies as far below the word limit as in the source, any other lies in    *)
(* the middle of the range.                                                *)
(***************************************************************************)
ElfWordBits == 25
MaxShnum == 2

UsizeLimit == 2 ^ ElfWordBits
Low24 == 16777216

\* elf.rs 16-20
ELF_MAGIC == <<127, 69, 76, 70>>
ELFCLASS64 == 2
ELFDATA2LSB == 1
ELFDATA2MSB == 2
EM_BPF == 247

\* elf.rs 23-31
SHT_NULL == 0
SHT_PROGBITS == 1
SHT_SYMTAB == 2
SHT_STRTAB == 3
SHT_REL == 9
SHT_NOBITS == 8
SHF_EXECINSTR == 4

\* elf.rs 253: size of Elf64_Shdr
SH_SIZE == 64

Byte(data, k) == data[k + 1]

\* variant: the field is always read little-endian
read_u16_le_only(data, offset, little_endian) ==
    Byte(data, offset) + 256 * Byte(data, offset + 1)

\* elf.rs 208-215: ElfParser::read_u16
read_u16(data, offset, little_endian) ==
    IF little_endian
    THEN Byte(data, offset) + 256 * Byte(data, offset + 1)
    ELSE 256 * Byte(data, offset) + Byte(data, offset + 1)

\* elf.rs 218-230: ElfParser::read_u32
read_u32(data, offset, little_endian) ==
    LET b(k) == Byte(data, offset + k)
    IN  IF little_endian
        THEN b(0) + 256 * (b(1) + 256 * (b(2) + 256 * b(3)))
        ELSE b(3) + 256 * (b(2) + 256 * (b(1) + 256 * b(0)))

\* elf.rs 233-249: ElfParser::read_u64, on the scaled range
read_u64(data, offset, little_endian) ==
    LET b(k) == Byte(data, offset + (IF little_endian THEN k ELSE 7 - k))
        low == b(0) + 256 * (b(1) + 256 * b(2))
        upper == {b(k) : k \in 3 .. 7}
    IN  IF upper = {0} THEN low
        ELSE IF upper = {255} THEN UsizeLimit - Low24 + low
        ELSE UsizeLimit \div 2

\* a + b on usize: the sum, or a panic with overflow checks, or the wrapped sum
UsizeAdd(a, b, checks) ==
    IF a + b < UsizeLimit THEN [panic |-> FALSE, val |-> a + b]
    ELSE IF checks THEN [panic |-> TRUE, val |-> 0]
    ELSE [panic |-> FALSE, val |-> (a + b) % UsizeLimit]

\* elf.rs 273-290: the section type of sh_type and sh_flags
SectionTypeOf(sh_type, sh_flags) ==
    IF sh_type = SHT_NULL THEN "Null"
    ELSE IF sh_type = SHT_PROGBITS
    THEN (IF (sh_flags \div SHF_EXECINSTR) % 2 # 0 THEN "Program" ELSE "Data")
    ELSE IF sh_type = SHT_SYMTAB THEN "SymTab"
    ELSE IF sh_type = SHT_STRTAB THEN "StrTab"
    ELSE IF sh_type = SHT_REL THEN "Rel"
    ELSE IF sh_type = SHT_NOBITS THEN "Bss"
    ELSE "Unknown"

\* elf.rs 261-270, 292-304: the section header read at `offset`
SectionHeaderAt(data, offset, little_endian, i) ==
    [name_offset |-> read_u32(data, offset, little_endian),
     section_type |-> SectionTypeOf(read_u32(data, offset + 4, little_endian),
                                    read_u64(data, offset + 8, little_endian)),
     flags |-> read_u64(data, offset + 8, little_endian),
     offset |-> read_u64(data, offset + 24, little_endian),
     size |-> read_u64(data, offset + 32, little_endian),
     link |-> read_u32(data, offset + 40, little_endian),
     info |-> read_u32(data, offset + 44, little_endian),
     index |-> i]

\* elf.rs 252-308: ElfParser::parse_sections, from section i on
RECURSIVE parse_sections_from(_, _, _, _, _, _, _, _)
parse_sections_from(data, shoff, shnum, little_endian, checks, i, sections, symtab_idx) ==
    IF i >= shnum THEN [result |-> "Ok", sections |-> sections, symtab_idx |-> symtab_idx]
    ELSE LET offset == UsizeAdd(shoff, i * SH_SIZE, checks)
             limit == UsizeAdd(offset.val, SH_SIZE, checks)
         IN  IF offset.panic \/ limit.panic
             THEN [result |-> "panic", sections |-> sections, symtab_idx |-> symtab_idx]
             ELSE IF limit.val > Len(data)
             THEN [result |-> "SectionOutOfBounds", sections |-> sections,
                   symtab_idx |-> symtab_idx]
             ELSE IF offset.val + SH_SIZE > Len(data)
             THEN \* the wrapped sum passed the test: data[offset] is out of bounds
                  [result |-> "panic", sections |-> sections, symtab_idx |-> symtab_idx]
             ELSE LET sh == SectionHeaderAt(data, offset.val, little_endian, i)
                  IN  parse_sections_from(data, shoff, shnum, little_endian, checks, i + 1,
                          Append(sections, sh),
                          IF sh.section_type = "SymTab" THEN Some(i) ELSE symtab_idx)

\* elf.rs 313-319, 325-331: the byte range of the string table held by `section`, if it
\* lies inside the data; data[start..end] panics when the wrapped end is below start
StringTableOf(data, section, checks) ==
    LET start == section.offset
        end == UsizeAdd(start, section.size, checks)
    IN  IF end.panic THEN [panic |-> TRUE, table |-> None]
        ELSE IF end.val <= Len(data)
        THEN (IF start > end.val THEN [panic |-> TRUE, table |-> None]
              ELSE [panic |-> FALSE, table |-> Some([start |-> start, end |-> end.val])])
        ELSE [panic |-> FALSE, table |-> None]

\* elf.rs 311-336: ElfParser::find_string_tables
find_string_tables(data, sections, shstrndx, symtab_idx, checks) ==
    LET none == [panic |-> FALSE, table |-> None]
        shstrtab == IF shstrndx < Len(sections)
                    THEN StringTableOf(data, sections[shstrndx + 1], checks)
                    ELSE none
        link == IF symtab_idx.some THEN sections[symtab_idx.val + 1].link ELSE 0
        strtab == IF symtab_idx.some /\ link < Len(sections)
                  THEN StringTableOf(data, sections[link + 1], checks)
                  ELSE none
    IN  IF shstrtab.panic \/ strtab.panic
        THEN [result |-> "panic", shstrtab |-> None, strtab |-> None]
        ELSE [result |-> "Ok", shstrtab |-> shstrtab.table, strtab |-> strtab.table]

\* elf.rs 379-388: ElfParser::section_data; data[start..end] panics when the wrapped
\* end is below start
section_data(data, section, checks) ==
    LET start == section.offset
        end == UsizeAdd(start, section.size, checks)
    IN  IF end.panic THEN [result |-> "panic", start |-> 0, end |-> 0]
        ELSE IF end.val > Len(data)
        THEN [result |-> "SectionDataOutOfBounds", start |-> 0, end |-> 0]
        ELSE IF start > end.val THEN [result |-> "panic", start |-> 0, end |-> 0]
        ELSE [result |-> "Ok", start |-> start, end |-> end.val]

NoSection == [result |-> "", start |-> 0, end |-> 0]

NoParser(result) ==
    [result |-> result, little_endian |-> FALSE, shoff |-> 0, shnum |-> 0, shstrndx |-> 0,
     sections |-> <<>>, shstrtab |-> None, strtab |-> None, symtab_idx |-> None]

\* elf.rs 153-205: ElfParser::new
ElfParser_new(data, checks) ==
    IF Len(data) < 64 THEN NoParser("ElfTooSmall")
    ELSE IF SubSeq(data, 1, 4) # ELF_MAGIC THEN NoParser("InvalidMagic")
    ELSE IF Byte(data, 4) # ELFCLASS64 THEN NoParser("UnsupportedClass")
    ELSE IF Byte(data, 5) \notin {ELFDATA2LSB, ELFDATA2MSB} THEN NoParser("UnsupportedEndian")
    ELSE LET little_endian == Byte(data, 5) = ELFDATA2LSB
             e_machine == read_u16(data, 18, little_endian)
             shoff == read_u64(data, 40, little_endian)
             shnum == read_u16(data, 60, little_endian)
             shstrndx == read_u16(data, 62, little_endian)
             parsed == parse_sections_from(data, shoff, shnum, little_endian, checks,
                                           0, <<>>, None)
             tables == find_string_tables(data, parsed.sections, shstrndx,
                                          parsed.symtab_idx, checks)
         IN  IF e_machine # EM_BPF THEN NoParser("UnsupportedMachine")
             ELSE IF parsed.result # "Ok" THEN NoParser(parsed.result)
             ELSE IF tables.result # "Ok" THEN NoParser(tables.result)
             ELSE [result |-> "Ok", little_endian |-> little_endian, shoff |-> shoff,
                   shnum |-> shnum, shstrndx |-> shstrndx, sections |-> parsed.sections,
                   shstrtab |-> tables.shstrtab, strtab |-> tables.strtab,
                   symtab_idx |-> parsed.symtab_idx]

\* the bytes of a field of n bytes holding v, in the byte order given
RECURSIVE Reverse(_)
Reverse(s) == IF s = <<>> THEN <<>> ELSE Append(Reverse(Tail(s)), Head(s))
FieldBytes(v, n, little_endian) ==
    IF little_endian THEN to_le_bytes(v, n) ELSE Reverse(to_le_bytes(v, n))
\* a u64 field in the scaled range: the five upper bytes are 0x00 or 0xFF
U64Bytes(v, little_endian) ==
    LET le == IF v < Low24 THEN to_le_bytes(v, 3) \o <<0, 0, 0, 0, 0>>
              ELSE to_le_bytes(v - (UsizeLimit - Low24), 3) \o <<255, 255, 255, 255, 255>>
    IN  IF little_endian THEN le ELSE Reverse(le)

\* `data` with `bytes` stored from offset `at` on
SetBytes(data, at, bytes) ==
    [k \in 1 .. Len(data) |->
        IF k > at /\ k <= at + Len(bytes) THEN bytes[k - at] ELSE data[k]]

\* the section headers the images carry
ShKinds == {"strtab", "symtab", "far"}
ShImage(sh_kind, little_endian) ==
    LET sh_type == IF sh_kind = "symtab" THEN SHT_SYMTAB ELSE SHT_STRTAB
        sh_offset == IF sh_kind = "far" THEN UsizeLimit - 8 ELSE 64
        sh_size == 16
        sh_link == IF sh_kind = "symtab" THEN 1 ELSE 0
    IN  SetBytes(SetBytes(SetBytes(SetBytes([k \in 1 .. SH_SIZE |-> 0],
            4, FieldBytes(sh_type, 4, little_endian)),
            24, U64Bytes(sh_offset, little_endian)),
            32, U64Bytes(sh_size, little_endian)),
            40, FieldBytes(sh_link, 4, little_endian))

\* an ELF image: the 64-byte header, then MaxShnum section headers, cut to len bytes
ElfImage(len, magic0, class, encoding, written_le, machine, shoff, shnum, shstrndx, sh_kind) ==
    LET header == SetBytes(SetBytes(SetBytes(SetBytes(SetBytes(
                      [k \in 1 .. 64 |-> 0],
                      0, <<magic0, 69, 76, 70, class, encoding, 1>>),
                      18, FieldBytes(machine, 2, written_le)),
                      40, U64Bytes(shoff, written_le)),
                      60, FieldBytes(shnum, 2, written_le)),
                      62, FieldBytes(shstrndx, 2, written_le))
        all == header \o ShImage(sh_kind, written_le) \o ShImage("strtab", written_le)
                      \o [k \in 1 .. (MaxShnum - 2) * SH_SIZE |-> 0]
    IN  SubSeq(all, 1, IF len < Len(all) THEN len ELSE Len(all))

ElfImages(lens) ==
    {ElfImage(len, magic0, class, encoding, written_le, machine, shoff, shnum, shstrndx,
              sh_kind) :
        len \in lens,
        magic0 \in {127, 0}, class \in {ELFCLASS64, 1},
        encoding \in {ELFDATA2LSB, ELFDATA2MSB, 0}, written_le \in BOOLEAN,
        machine \in {EM_BPF, 62}, shoff \in {64, 100, UsizeLimit - 32},
        shnum \in 0 .. MaxShnum, shstrndx \in {0, 1, MaxShnum}, sh_kind \in ShKinds}

\* no object file being parsed
ElfIdle ==
    /\ el_pc = "idle"
    /\ el_data = <<>>
    /\ el_parser = NoParser("")
    /\ el_section = NoSection

\* an input byte string
ElfInput ==
    /\ el_pc = "input"
    /\ el_data \in ElfImages({0, 63, 64, 128, 64 + MaxShnum * SH_SIZE})
    /\ el_parser = NoParser("")
    /\ el_section = NoSection

\* ElfParser::new(&data)
ElfNew ==
    /\ el_pc = "input"
    /\ el_parser' = ElfParser_new(el_data, overflow_checks)
    /\ el_pc' = "done"
    /\ UNCHANGED <<el_data, el_section>>
    /\ UNCHANGED non_elf_vars

\* parser.section_data(&parser.sections()[i])
SectionData ==
    /\ el_pc = "done"
    /\ el_parser.result = "Ok"
    /\ el_section = NoSection
    /\ \E i \in 1 .. Len(el_parser.sections) :
          el_section' = section_data(el_data, el_parser.sections[i], overflow_checks)
    /\ UNCHANGED <<el_pc, el_data, el_parser>>
    /\ UNCHANGED non_elf_vars

ElfNext ==
    \/ ElfNew
    \/ SectionData

(***************************************************************************)
(* JIT executor (kernel_bpf/src/execution/jit/mod.rs).  Of the compiler    *)
(* only the outcome is kept: Ok, one of the JIT errors, or the panic of an *)
(* out-of-range register table index.  The instruction decoding and the    *)
(* interpreter follow the bytecode model of the design.                    *)
(***************************************************************************)
MaxProgLen == 3

\* jit/mod.rs 82-94: the length of BPF_TO_X64
BPF_REGS == 11

\* the instruction class is the low three bits of the opcode
OpcodeClass(insn) ==
    CASE insn.opcode % 8 = 0 -> "Ld"
      [] insn.opcode % 8 = 1 -> "Ldx"
      [] insn.opcode % 8 = 2 -> "St"
      [] insn.opcode % 8 = 3 -> "Stx"
      [] insn.opcode % 8 = 4 -> "Alu32"
      [] insn.opcode % 8 = 5 -> "Jmp"
      [] insn.opcode % 8 = 6 -> "Jmp32"
      [] OTHER -> "Alu64"

\* for the ALU and JMP classes the next bit selects the register source
SourceIsReg(insn) == (insn.opcode \div 8) % 2 = 1

\* the remaining four bits are the operation
AluOpNames ==
    <<"Add", "Sub", "Mul", "Div", "Or", "And", "Lsh", "Rsh", "Neg", "Mod", "Xor", "Mov",
      "Arsh", "End">>
AluOp_from_opcode(opcode) ==
    IF opcode \div 16 < Len(AluOpNames) THEN Some(AluOpNames[(opcode \div 16) + 1]) ELSE None

JmpOpNames ==
    <<"Ja", "Jeq", "Jgt", "Jge", "Jset", "Jne", "Jsgt", "Jsge", "Call", "Exit", "Jlt", "Jle",
      "Jslt", "Jsle">>
JmpOp_from_opcode(opcode) ==
    IF opcode \div 16 < Len(JmpOpNames) THEN Some(JmpOpNames[(opcode \div 16) + 1]) ELSE None

\* exit is the opcode 0x95
is_exit(insn) == insn.opcode = 149

\* BPF_TO_X64[reg as usize]: the index is inside the table
InTable(reg) == reg < BPF_REGS

\* jit/mod.rs 739-901: Arm64JitCompiler::compile_alu
compile_alu(insn) ==
    IF ~InTable(dst_reg(insn)) THEN "panic"
    ELSE LET op == AluOp_from_opcode(insn.opcode)
         IN  IF ~op.some THEN "UnsupportedInstruction"
             ELSE IF op.val = "End" THEN "UnsupportedInstruction"
             ELSE IF op.val # "Neg" /\ SourceIsReg(insn) /\ ~InTable(src_reg(insn))
             THEN "panic"
             ELSE "Ok"

\* jit/mod.rs 906-971: Arm64JitCompiler::compile_jmp
compile_jmp(insn) ==
    LET op == JmpOp_from_opcode(insn.opcode)
    IN  IF ~op.some THEN "UnsupportedInstruction"
        ELSE IF op.val \in {"Ja", "Call", "Exit"} THEN "Ok"
        ELSE IF ~InTable(dst_reg(insn)) THEN "panic"
        ELSE IF SourceIsReg(insn) /\ ~InTable(src_reg(insn)) THEN "panic"
        ELSE "Ok"

\* jit/mod.rs 974-983: Arm64JitCompiler::compile_load
compile_load(insn) ==
    IF ~InTable(dst_reg(insn)) \/ ~InTable(src_reg(insn)) THEN "panic" ELSE "Ok"

\* jit/mod.rs 986-1008: Arm64JitCompiler::compile_store
compile_store(insn) ==
    IF ~InTable(dst_reg(insn)) THEN "panic"
    ELSE IF OpcodeClass(insn) = "Stx" /\ ~InTable(src_reg(insn)) THEN "panic"
    ELSE "Ok"

\* jit/mod.rs 711-736: Arm64JitCompiler::compile_insn
compile_insn(insn) ==
    IF is_exit(insn) THEN "Ok"
    ELSE CASE OpcodeClass(insn) \in {"Alu64", "Alu32"} -> compile_alu(insn)
           [] OpcodeClass(insn) \in {"Jmp", "Jmp32"} -> compile_jmp(insn)
           [] OpcodeClass(insn) = "Ldx" -> compile_load(insn)
           [] OpcodeClass(insn) \in {"Stx", "St"} -> compile_store(insn)
           [] OTHER -> "UnsupportedInstruction"

\* jit/mod.rs 637-673: Arm64JitCompiler::compile_program, from instruction i on
RECURSIVE compile_program_from(_, _)
compile_program_from(insns, i) ==
    IF i >= Len(insns) THEN "Ok"
    ELSE IF is_wide(At(insns, i))
    THEN (IF i + 1 >= Len(insns) THEN "CodegenFailed"
          ELSE IF ~InTable(dst_reg(At(insns, i))) THEN "panic"
          ELSE compile_program_from(insns, i + 2))
    ELSE IF compile_insn(At(insns, i)) # "Ok" THEN compile_insn(At(insns, i))
    ELSE compile_program_from(insns, i + 1)

\* jit/mod.rs 582-590: JitExecutor::compile
JitExecutor_compile(insns) ==
    IF insns = <<>> THEN "CodegenFailed" ELSE compile_program_from(insns, 0)

\* the interpreter's result: Ok(r0) or an error
BpfOk(r0) == [ok |-> TRUE, val |-> r0, err |-> ""]
BpfErr(e) == [ok |-> FALSE, val |-> 0, err |-> e]

\* the interpreter: one fetch-decode-dispatch loop; r1 is the context, exit returns r0,
\* division by zero gives zero
RECURSIVE Interpreter_run(_, _, _, _, _)
Interpreter_run(insns, ctx, pc, regs, steps) ==
    IF steps = 0 THEN BpfErr("Timeout")
    ELSE IF pc < 0 \/ pc >= Len(insns) THEN BpfErr("OutOfBounds")
    ELSE LET insn == At(insns, pc)
             dst == dst_reg(insn)
             operand == IF SourceIsReg(insn) THEN regs[src_reg(insn)] ELSE insn.imm
             alu == AluOp_from_opcode(insn.opcode)
             jmp == JmpOp_from_opcode(insn.opcode)
         IN  IF is_exit(insn) THEN BpfOk(regs[0])
             ELSE IF is_wide(insn)
             THEN (IF pc + 1 >= Len(insns) THEN BpfErr("OutOfBounds")
                   ELSE Interpreter_run(insns, ctx, pc + 2,
                            [regs EXCEPT ![dst] = insn.imm + Low24 * At(insns, pc + 1).imm],
                            steps - 1))
             ELSE IF OpcodeClass(insn) \in {"Alu64", "Alu32"} /\ alu.some
                     /\ alu.val \in {"Add", "Div", "Mov", "End"}
             THEN Interpreter_run(insns, ctx, pc + 1,
                      [regs EXCEPT ![dst] =
                          CASE alu.val = "Add" -> regs[dst] + operand
                            [] alu.val = "Div" ->
                                   IF operand = 0 THEN 0 ELSE regs[dst] \div operand
                            [] alu.val = "Mov" -> operand
                            [] OTHER -> regs[dst]],
                      steps - 1)
             ELSE IF OpcodeClass(insn) = "Jmp" /\ jmp.some /\ jmp.val = "Ja"
             THEN Interpreter_run(insns, ctx, pc + 1 + insn.offset, regs, steps - 1)
             ELSE IF OpcodeClass(insn) = "Ldx"
             THEN (IF regs[src_reg(insn)] # 1 \/ insn.offset \div 8 >= Len(ctx)
                   THEN BpfErr("OutOfBounds")
                   ELSE Interpreter_run(insns, ctx, pc + 1,
                            [regs EXCEPT ![dst] = ctx[(insn.offset \div 8) + 1]], steps - 1))
             ELSE BpfErr("InvalidInstruction")

\* Interpreter::execute(program, ctx): r1 holds the context, the others start at zero
Interpreter_execute(insns, ctx) ==
    Interpreter_run(insns, ctx, 0, [r \in 0 .. (BPF_REGS - 1) |-> IF r = 1 THEN 1 ELSE 0],
                    2 * MaxProgLen)

\* variant: a JIT error is returned instead of falling back
JitExecutor_execute_no_fallback(insns, ctx) ==
    LET compiled == JitExecutor_compile(insns)
    IN  IF compiled = "panic" THEN [compiled |-> compiled, result |-> BpfErr("panic")]
        ELSE IF compiled = "Ok"
        THEN [compiled |-> compiled, result |-> Interpreter_execute(insns, ctx)]
        ELSE [compiled |-> compiled, result |-> BpfErr(compiled)]

\* jit/mod.rs 599-619: JitExecutor::execute
JitExecutor_execute(insns, ctx) ==
    LET compiled == JitExecutor_compile(insns)
    IN  IF compiled = "panic" THEN [compiled |-> compiled, result |-> BpfErr("panic")]
        ELSE IF compiled = "Ok"
        THEN [compiled |-> compiled, result |-> Interpreter_execute(insns, ctx)]
        ELSE [compiled |-> compiled, result |-> Interpreter_execute(insns, ctx)]

\* the instructions programs are made of: mov64 r0 42, add64 r0 r6, div64 r0 0,
\* ldx r0 [r1+0], ja +1, a wide load of r6 and its second slot, to_le, exit
JitInsns ==
    {Insn(183, 0, 0, 42), Insn(15, 96, 0, 0), Insn(55, 0, 0, 0), Insn(121, 16, 0, 0),
     Insn(5, 0, 1, 0), Insn(24, 6, 0, 9), Insn(0, 0, 0, 0), Insn(212, 0, 0, 64),
     Insn(149, 0, 0, 0)}
RECURSIVE InsnSeqs(_)
InsnSeqs(n) ==
    IF n = 0 THEN {<<>>}
    ELSE {Append(p, x) : p \in InsnSeqs(n - 1), x \in JitInsns}
JitPrograms == UNION {InsnSeqs(n) : n \in 1 .. MaxProgLen}
JitContexts == {<<>>, <<5>>, <<7>>}

NoRun == [compiled |-> "", result |-> BpfErr("")]

\* nothing to execute
JitIdle ==
    /\ jt_program = <<>>
    /\ jt_ctx = <<>>
    /\ jt_jit = NoRun
    /\ jt_interp = NoRun

\* a program and a context
JitInput ==
    /\ jt_program \in JitPrograms
    /\ jt_ctx \in JitContexts
    /\ jt_jit = NoRun
    /\ jt_interp = NoRun

\* JitExecutor::new().execute(&program, &ctx)
JitExecute ==
    /\ jt_program # <<>>
    /\ jt_jit = NoRun
    /\ jt_jit' = JitExecutor_execute(jt_program, jt_ctx)
    /\ UNCHANGED <<jt_program, jt_ctx, jt_interp>>
    /\ UNCHANGED non_jit_vars

\* Interpreter::new().execute(&program, &ctx)
InterpExecute ==
    /\ jt_program # <<>>
    /\ jt_interp = NoRun
    /\ jt_interp' = [compiled |-> "none", result |-> Interpreter_execute(jt_program, jt_ctx)]
    /\ UNCHANGED <<jt_program, jt_ctx, jt_jit>>
    /\ UNCHANGED non_jit_vars

JitNext ==
    \/ JitExecute
    \/ InterpExecute

(***************************************************************************)
(* The code the JIT emits (kernel_bpf/src/execution/jit/mod.rs).  Emitted  *)
(* code is kept as the sequence of host instructions with the number of    *)
(* bytes each one takes, so a native offset is a sum of lengths and the    *)
(* emitted sequence can be run on a host register file.  The host word is  *)
(* scaled: a register holds HostBits bits, and its low HostHalfBits bits   *)
(* stand for the 32-bit sub-register.                                      *)
(***************************************************************************)
MaxCgLen == 4
HostHalfBits == 8
HostBits == 2 * HostHalfBits
EntryRsp == 4096

\* jit/mod.rs 65-78: host register encodings
RAX == 0
RCX == 1
RDX == 2
RBX == 3
RSP == 4
RBP == 5
RSI == 6
RDI == 7
R8 == 8
R9 == 9
R13 == 13
R14 == 14
R15 == 15

\* jit/mod.rs 82-94: the host register of each BPF register r0 .. r10
BPF_TO_X64 == <<RAX, RDI, RSI, RDX, RCX, R8, RBX, R13, R14, R15, RBP>>

\* jit/mod.rs 97
TMP_REG == R9

\* jit/mod.rs 632: Arm64JitCompiler::new
stack_size == 512

\* one host instruction: the operation, where its second operand comes from
\* ("reg", "imm", "cl" or "none"), its operands and its length in bytes
X64(op, mode, dst, src, imm, len) ==
    <<[op |-> op, mode |-> mode, dst |-> dst, src |-> src, imm |-> imm, len |-> len]>>

\* emit_mov_reg, emit_xor_reg, emit_add_reg, emit_sub_reg, emit_and_reg, emit_or_reg,
\* emit_cmp_reg, emit_test_reg: REX.W, opcode, ModR/M
emit_reg(op, dst, src) == X64(op, "reg", dst, src, 0, 3)

\* emit_mov_imm32, emit_add_imm32, emit_sub_imm32, emit_and_imm32, emit_or_imm32,
\* emit_xor_imm32, emit_cmp_imm32: REX.W, opcode, ModR/M, imm32 (sign-extended)
emit_imm32(op, dst, imm) == X64(op, "imm", dst, 0, imm, 7)

\* emit_mov_imm64: REX.W, B8+rd, imm64
emit_mov_imm64(dst, imm) == X64("mov", "imm", dst, 0, imm, 10)

\* emit_imul_reg: REX.W, 0F AF, ModR/M
emit_imul_reg(dst, src) == X64("imul", "reg", dst, src, 0, 4)

\* emit_div_reg: REX.W, F7 /6: RDX:RAX / src
emit_div_reg(src) == X64("div", "reg", RAX, src, 0, 3)

\* emit_shl_cl, emit_shr_cl, emit_sar_cl: REX.W, D3, ModR/M
emit_cl(op, dst) == X64(op, "cl", dst, RCX, 0, 3)

\* emit_shl_imm, emit_shr_imm, emit_sar_imm: REX.W, C1, ModR/M, imm & 0x3F
emit_imm8(op, dst, imm) == X64(op, "imm", dst, 0, (imm % 256) % HostBits, 4)

\* emit_neg: REX.W, F7 /3
emit_neg(dst) == X64("neg", "none", dst, 0, 0, 3)

\* emit_jmp_rel32: E9 and a 4-byte displacement
emit_jmp_rel32(rel) == X64("jmp", "none", 0, 0, rel, 5)

\* emit_jcc_rel32: 0F 8x and a 4-byte displacement
emit_jcc_rel32(cc, rel) == X64("jcc", "none", cc, 0, rel, 6)

\* emit_ret: C3
emit_ret == X64("ret", "none", 0, 0, 0, 1)

\* emit_push, emit_pop: a REX.B prefix for r8 .. r15, then 50+r / 58+r
emit_push(reg) == X64("push", "none", reg, 0, 0, IF reg >= 8 THEN 2 ELSE 1)
emit_pop(reg) == X64("pop", "none", reg, 0, 0, IF reg >= 8 THEN 2 ELSE 1)

\* emit_modrm_disp: the bytes of ModR/M, SIB and displacement for [base + disp]
emit_modrm_disp(base, disp) ==
    IF base % 8 = RSP
    THEN (IF disp = 0 THEN 2 ELSE IF disp >= -128 /\ disp <= 127 THEN 3 ELSE 6)
    ELSE (IF disp = 0 /\ base % 8 # RBP THEN 1
          ELSE IF disp >= -128 /\ disp <= 127 THEN 2 ELSE 5)

\* MemSize::from_opcode: bits 3 and 4 of the opcode
MemSize_from_opcode(opcode) ==
    CASE (opcode \div 8) % 4 = 0 -> "Word"
      [] (opcode \div 8) % 4 = 1 -> "Half"
      [] (opcode \div 8) % 4 = 2 -> "Byte"
      [] OTHER -> "DWord"

\* emit_load: prefix and opcode by size, then ModR/M and displacement
emit_load(dst, base, disp, size) ==
    X64("load", size, dst, base, disp,
        (CASE size \in {"Byte", "Half"} -> 3
           [] size = "Word" -> (IF dst >= 8 \/ base >= 8 THEN 2 ELSE 1)
           [] OTHER -> 2) + emit_modrm_disp(base, disp))

\* emit_store
emit_store(base, disp, src, size) ==
    X64("store", size, base, src, disp,
        (CASE size = "Byte" -> 2
           [] size = "Half" -> 3
           [] size = "Word" -> (IF src >= 8 \/ base >= 8 THEN 2 ELSE 1)
           [] OTHER -> 2) + emit_modrm_disp(base, disp))

\* jit/mod.rs 678-692: Arm64JitCompiler::emit_prologue
emit_prologue ==
    emit_push(RBP) \o emit_push(RBX) \o emit_push(R13) \o emit_push(R14) \o emit_push(R15)
        \o emit_imm32("sub", RSP, stack_size) \o emit_reg("mov", RBP, RSP)

\* jit/mod.rs 695-708: Arm64JitCompiler::emit_epilogue
emit_epilogue ==
    emit_imm32("add", RSP, stack_size)
        \o emit_pop(R15) \o emit_pop(R14) \o emit_pop(R13) \o emit_pop(RBX) \o emit_pop(RBP)
        \o emit_ret

\* jit/mod.rs 739-903: the host instructions compile_alu emits for an accepted instruction
compile_alu_code(insn) ==
    LET dst == BPF_TO_X64[dst_reg(insn) + 1]
        is_reg == SourceIsReg(insn)
        src == IF is_reg THEN BPF_TO_X64[src_reg(insn) + 1] ELSE 0
        op == AluOp_from_opcode(insn.opcode).val
        \* add, sub, or, and, xor
        plain(name) == IF is_reg THEN emit_reg(name, dst, src)
                       ELSE emit_imm32(name, dst, insn.imm)
        \* lsh, rsh, arsh
        shift(name) == IF is_reg
                       THEN (IF src # RCX THEN emit_reg("mov", RCX, src) ELSE <<>>)
                                \o emit_cl(name, dst)
                       ELSE emit_imm8(name, dst, insn.imm)
        \* the part div and mod share
        divide == (IF dst # RAX
                   THEN emit_reg("mov", TMP_REG, RAX) \o emit_reg("mov", RAX, dst)
                   ELSE <<>>)
                      \o emit_reg("xor", RDX, RDX)
                      \o (IF is_reg THEN emit_div_reg(src)
                          ELSE emit_imm32("mov", R9, insn.imm) \o emit_div_reg(R9))
    IN  CASE op = "Add" -> plain("add")
          [] op = "Sub" -> plain("sub")
          [] op = "Mul" -> (IF is_reg THEN emit_imul_reg(dst, src)
                            ELSE emit_imm32("mov", TMP_REG, insn.imm)
                                     \o emit_imul_reg(dst, TMP_REG))
          [] op = "Div" -> divide
                               \o (IF dst # RAX
                                   THEN emit_reg("mov", dst, RAX)
                                            \o emit_reg("mov", RAX, TMP_REG)
                                   ELSE <<>>)
          [] op = "Mod" -> divide
                               \o emit_reg("mov", dst, RDX)
                               \o (IF dst # RAX THEN emit_reg("mov", RAX, TMP_REG) ELSE <<>>)
          [] op = "Or" -> plain("or")
          [] op = "And" -> plain("and")
          [] op = "Xor" -> plain("xor")
          [] op = "Lsh" -> shift("shl")
          [] op = "Rsh" -> shift("shr")
          [] op = "Arsh" -> shift("sar")
          [] op = "Neg" -> emit_neg(dst)
          [] op = "Mov" -> (IF is_reg THEN emit_reg("mov", dst, src)
                            ELSE IF insn.imm = 0 THEN emit_reg("xor", dst, dst)
                            ELSE emit_imm32("mov", dst, insn.imm))
          [] OTHER -> <<>>

\* jit/mod.rs 974-983: the host instruction compile_load emits
compile_load_code(insn) ==
    emit_load(BPF_TO_X64[dst_reg(insn) + 1], BPF_TO_X64[src_reg(insn) + 1], insn.offset,
              MemSize_from_opcode(insn.opcode))

\* jit/mod.rs 986-1008: the host instructions compile_store emits
compile_store_code(insn) ==
    IF OpcodeClass(insn) = "St"
    THEN emit_imm32("mov", TMP_REG, insn.imm)
             \o emit_store(BPF_TO_X64[dst_reg(insn) + 1], insn.offset, TMP_REG,
                           MemSize_from_opcode(insn.opcode))
    ELSE emit_store(BPF_TO_X64[dst_reg(insn) + 1], insn.offset,
                    BPF_TO_X64[src_reg(insn) + 1], MemSize_from_opcode(insn.opcode))

\* X64Emitter: the code, the jumps to patch and the offset table.  `slot_of` and the
\* `slot` of a patch are history: the source slot an entry was made for.
NewEmitter == [code |-> <<>>, jump_patches |-> <<>>, insn_offsets |-> <<>>, slot_of |-> <<>>]

\* jit/mod.rs 127-129: X64Emitter::offset, the length of the code in bytes
RECURSIVE code_offset(_)
code_offset(code) ==
    IF code = <<>> THEN 0 ELSE Head(code).len + code_offset(Tail(code))

emit(em, code) == [em EXCEPT !.code = @ \o code]

\* jit/mod.rs 132-136: X64Emitter::mark_insn
mark_insn(em, slot) ==
    [em EXCEPT !.insn_offsets = Append(@, code_offset(em.code)), !.slot_of = Append(@, slot)]

\* `target as usize` of a negative i32: a value above every table length
AsUsize(target) == IF target < 0 THEN 2147483647 ELSE target

\* jit/mod.rs 139-142: X64Emitter::record_jump
record_jump(em, target_insn, slot) ==
    [em EXCEPT !.jump_patches =
        Append(@, [patch_offset |-> code_offset(em.code) - 4, target_insn |-> target_insn,
                   slot |-> slot])]

\* jit/mod.rs 906-971: compile_jmp for an accepted instruction
compile_jmp_code(em, insn, slot) ==
    LET op == JmpOp_from_opcode(insn.opcode).val
        dst == BPF_TO_X64[dst_reg(insn) + 1]
        is_reg == SourceIsReg(insn)
        src == IF is_reg THEN BPF_TO_X64[src_reg(insn) + 1] ELSE 0
        target == AsUsize(Len(em.insn_offsets) + insn.offset)
        cmp == IF is_reg THEN emit_reg("cmp", dst, src) ELSE emit_imm32("cmp", dst, insn.imm)
        test == IF op # "Jset" THEN <<>>
                ELSE IF is_reg THEN emit_reg("test", dst, src)
                ELSE emit_imm32("mov", TMP_REG, insn.imm) \o emit_reg("test", dst, TMP_REG)
    IN  CASE op = "Ja" -> record_jump(emit(em, emit_jmp_rel32(0)), target, slot)
          [] op = "Call" -> emit(em, emit_reg("xor", RAX, RAX))
          [] op = "Exit" -> emit(em, emit_epilogue)
          [] OTHER -> record_jump(emit(em, cmp \o test \o emit_jcc_rel32(op, 0)), target, slot)

\* jit/mod.rs 711-736: compile_insn for an accepted instruction
compile_insn_code(em, insn, slot) ==
    IF is_exit(insn) THEN emit(em, emit_epilogue)
    ELSE CASE OpcodeClass(insn) \in {"Alu64", "Alu32"} -> emit(em, compile_alu_code(insn))
           [] OpcodeClass(insn) \in {"Jmp", "Jmp32"} -> compile_jmp_code(em, insn, slot)
           [] OpcodeClass(insn) = "Ldx" -> emit(em, compile_load_code(insn))
           [] OTHER -> emit(em, compile_store_code(insn))

\* jit/mod.rs 1011-1029: patch_jumps, the displacement written for each recorded jump
patch_jumps(em) ==
    [j \in 1 .. Len(em.jump_patches) |->
        LET p == em.jump_patches[j]
            target_offset == IF p.target_insn < Len(em.insn_offsets)
                             THEN em.insn_offsets[p.target_insn + 1]
                             ELSE code_offset(em.code)
        IN  target_offset - p.patch_offset - 4]

\* jit/mod.rs 646-666: the loop of compile_program over an accepted program
RECURSIVE compile_loop(_, _, _)
compile_loop(insns, i, em) ==
    IF i >= Len(insns) THEN em
    ELSE IF is_wide(At(insns, i))
    THEN compile_loop(insns, i + 2,
             emit(mark_insn(em, i),
                  emit_mov_imm64(BPF_TO_X64[dst_reg(At(insns, i)) + 1],
                                 At(insns, i).imm + Low24 * At(insns, i + 1).imm)))
    ELSE compile_loop(insns, i + 1, compile_insn_code(mark_insn(em, i), At(insns, i), i))

\* jit/mod.rs 637-673: Arm64JitCompiler::compile_program: the outcome and, for Ok, the
\* emitter after the loop and the displacements patch_jumps wrote
compile_program(insns) ==
    LET result == JitExecutor_compile(insns)
        em == compile_loop(insns, 0, emit(NewEmitter, emit_prologue))
    IN  IF result # "Ok"
        THEN [result |-> result, em |-> NewEmitter, disp |-> <<>>, entry |-> 0]
        ELSE [result |-> "Ok", em |-> em, disp |-> patch_jumps(em), entry |-> 0]

(***************************************************************************)
(* The host machine the emitted code runs on: sixteen registers of         *)
(* HostBits bits, the stack memory written so far, and a fault flag (a     *)
(* divide error ends the run).                                             *)
(***************************************************************************)
HostHalf == 2 ^ HostHalfBits
HostWord == HostHalf * HostHalf

\* the bits of a and b combined one by one
RECURSIVE BitOp(_, _, _, _)
BitOp(f, a, b, n) ==
    IF n = 0 THEN 0
    ELSE 2 * BitOp(f, a \div 2, b \div 2, n - 1)
           + (CASE f = "and" -> (IF a % 2 = 1 /\ b % 2 = 1 THEN 1 ELSE 0)
                [] f = "or" -> (IF a % 2 = 1 \/ b % 2 = 1 THEN 1 ELSE 0)
                [] OTHER -> (IF a % 2 # b % 2 THEN 1 ELSE 0))

\* a * b modulo 2^(2 * h), by halves so that no intermediate exceeds the word
MulMod(a, b, h) ==
    LET half == 2 ^ h
    IN  ((a % half) * (b % half)
           + ((((a \div half) * (b % half) + (a % half) * (b \div half)) % half) * half))
        % (half * half)

\* arithmetic shift right of an n-bit value
Sar(a, c, n) ==
    LET signed == IF a >= 2 ^ (n - 1) THEN a - 2 ^ n ELSE a
    IN  (signed \div (2 ^ c)) % (2 ^ n)

\* one host instruction on the machine state; every operation is the REX.W (full word) form
X64Step(st, ins) ==
    LET d == st.regs[ins.dst]
        s == CASE ins.mode = "reg" -> st.regs[ins.src]
               [] ins.mode = "cl" -> st.regs[RCX] % HostBits
               [] OTHER -> ins.imm % HostWord
        set(r, v) == [st EXCEPT !.regs[r] = v]
    IN  CASE ins.op = "mov" -> set(ins.dst, s)
          [] ins.op = "add" -> set(ins.dst, (d + s) % HostWord)
          [] ins.op = "sub" -> set(ins.dst, (d - s) % HostWord)
          [] ins.op = "imul" -> set(ins.dst, MulMod(d, s, HostHalfBits))
          [] ins.op \in {"and", "or", "xor"} -> set(ins.dst, BitOp(ins.op, d, s, HostBits))
          [] ins.op = "shl" ->
                 set(ins.dst, (d % (2 ^ (HostBits - (s % HostBits)))) * (2 ^ (s % HostBits)))
          [] ins.op = "shr" -> set(ins.dst, d \div (2 ^ (s % HostBits)))
          [] ins.op = "sar" -> set(ins.dst, Sar(d, s % HostBits, HostBits))
          [] ins.op = "neg" -> set(ins.dst, (HostWord - d) % HostWord)
          [] ins.op = "div" ->
                 \* RDX:RAX divided by the operand: quotient to RAX, remainder to RDX
                 \* (a zero divisor or a quotient that does not fit is a divide error)
                 LET dividend == st.regs[RDX] * HostWord + st.regs[RAX]
                 IN  IF s = 0 \/ st.regs[RDX] >= s
                     THEN [st EXCEPT !.fault = TRUE]
                     ELSE [st EXCEPT !.regs[RAX] = dividend \div s,
                                     !.regs[RDX] = dividend % s]
          [] ins.op = "push" ->
                 [st EXCEPT !.regs[RSP] = @ - 8,
                            !.mem = [a \in DOMAIN st.mem \cup {st.regs[RSP] - 8} |->
                                        IF a = st.regs[RSP] - 8 THEN d ELSE st.mem[a]]]
          [] ins.op = "pop" ->
                 [st EXCEPT !.regs[RSP] = @ + 8,
                            !.regs[ins.dst] =
                                IF st.regs[RSP] \in DOMAIN st.mem THEN st.mem[st.regs[RSP]]
                                ELSE 0]
          [] ins.op = "ret" -> [st EXCEPT !.regs[RSP] = @ + 8]
          [] OTHER -> st

\* a straight-line sequence of host instructions, stopping at a fault
RECURSIVE X64Run(_, _)
X64Run(st, code) ==
    IF code = <<>> \/ st.fault THEN st
    ELSE X64Run(X64Step(st, Head(code)), Tail(code))

\* the ALU instructions run on the host: both classes, every operation code up to End,
\* register and immediate sources, destinations and sources among r0, r3, r4, r6
AluRegs == {0, 3, 4, 6}
AluImms == {0, 3, -1}
AluInsns ==
    {Insn(op * 16 + 8 + class, src * 16 + dst, 0, 0) :
        op \in 0 .. 13, class \in {4, 7}, dst \in AluRegs, src \in AluRegs}
    \cup {Insn(op * 16 + class, dst, 0, imm) :
        op \in 0 .. 13, class \in {4, 7}, dst \in AluRegs, imm \in AluImms}

\* register files at entry: small values, values with the upper half set, zeros and ones
HostRegs == 0 .. 15
HostFile(k) ==
    [r \in HostRegs |->
        IF r = RSP THEN EntryRsp
        ELSE CASE k = 0 -> r + 1
               [] k = 1 -> (HostHalf * (r + 1) + HostHalf - 1 - r) % HostWord
               [] OTHER -> IF r % 2 = 0 THEN 0 ELSE HostWord - 1]
HostStates ==
    {[regs |-> HostFile(k), mem |-> [a \in {EntryRsp} |-> 0], fault |-> FALSE] : k \in 0 .. 2}

\* the programs compiled: mov64 r0 42, a wide load of r6 and its second slot,
\* ja -3, ja +1, ja +2, jeq r0 0 +1, ldx r0 [r1+0], exit
CgInsns ==
    {Insn(183, 0, 0, 42), Insn(24, 6, 0, 9), Insn(0, 0, 0, 0), Insn(5, 0, -3, 0),
     Insn(5, 0, 1, 0), Insn(5, 0, 2, 0), Insn(21, 0, 1, 0), Insn(121, 16, 0, 0),
     Insn(149, 0, 0, 0)}
RECURSIVE CgSeqs(_)
CgSeqs(n) ==
    IF n = 0 THEN {<<>>}
    ELSE {Append(p, x) : p \in CgSeqs(n - 1), x \in CgInsns}
CgPrograms(len) == UNION {CgSeqs(n) : n \in 1 .. len}

NoCode == [result |-> "", em |-> NewEmitter, disp |-> <<>>, entry |-> 0]
HostOff == [regs |-> [r \in HostRegs |-> 0], mem |-> <<>>, fault |-> FALSE]

\* nothing to compile and nothing running
CgIdle ==
    /\ cg_program = <<>>
    /\ cg_code = NoCode
    /\ hs_pc = "idle"
    /\ hs_insn = Insn(0, 0, 0, 0)
    /\ hs = HostOff
    /\ hs_pre = HostOff
    /\ hs_entry = HostOff

\* either a program to compile, or the code of one ALU instruction followed by exit
\* entered on a host register file
CgInput ==
    \/ /\ cg_program \in CgPrograms(MaxCgLen)
       /\ cg_code = NoCode
       /\ hs_pc = "idle"
       /\ hs_insn = Insn(0, 0, 0, 0)
       /\ hs = HostOff
       /\ hs_pre = HostOff
       /\ hs_entry = HostOff
    \/ /\ cg_program = <<>>
       /\ cg_code = NoCode
       /\ hs_pc = "entry"
       /\ hs_insn \in AluInsns
       /\ hs \in HostStates
       /\ hs_pre = hs
       /\ hs_entry = hs

\* Arm64JitCompiler::new().compile_program(insns)
Compile ==
    /\ cg_program # <<>>
    /\ cg_code = NoCode
    /\ cg_code' = compile_program(cg_program)
    /\ UNCHANGED <<cg_program, hs_pc, hs_insn, hs, hs_pre, hs_entry>>
    /\ UNCHANGED non_cg_vars

\* the host runs the prologue of the compiled code
RunPrologue ==
    /\ hs_pc = "entry"
    /\ compile_insn(hs_insn) = "Ok"
    /\ hs' = X64Run(hs, emit_prologue)
    /\ hs_pc' = "body"
    /\ UNCHANGED <<cg_program, cg_code, hs_insn, hs_pre, hs_entry>>
    /\ UNCHANGED non_cg_vars

\* the host runs the sequence emitted for the ALU instruction
RunInsn ==
    /\ hs_pc = "body"
    /\ \E after \in {X64Run(hs, compile_alu_code(hs_insn))} :
          /\ hs' = after
          /\ hs_pc' = IF after.fault THEN "fault" ELSE "exit"
    /\ hs_pre' = hs
    /\ UNCHANGED <<cg_program, cg_code, hs_insn, hs_entry>>
    /\ UNCHANGED non_cg_vars

\* the host runs the epilogue emitted for exit
RunEpilogue ==
    /\ hs_pc = "exit"
    /\ hs' = X64Run(hs, emit_epilogue)
    /\ hs_pc' = "returned"
    /\ UNCHANGED <<cg_program, cg_code, hs_insn, hs_pre, hs_entry>>
    /\ UNCHANGED non_cg_vars

CgNext ==
    \/ Compile
    \/ RunPrologue
    \/ RunInsn
    \/ RunEpilogue

(***************************************************************************)
(* Event parsing (userspace/rk_bridge/src/event.rs).  An event is a        *)
(* sequence of bytes: the repr(C) header (timestamp_ns: u64, event_type,   *)
(* cpu, pid, _reserved: u32) followed by the fields of the variant.  The   *)
(* header is read through a reference cast from the byte pointer; on a     *)
(* buffer that is not 8-byte aligned that read is undefined: the call      *)
(* either behaves as on an aligned buffer or stops with the misaligned     *)
(* pointer dereference panic of a build with debug assertions.             *)
(***************************************************************************)
MaxTail == 2

\* event.rs 26: EventHeader::SIZE = size_of::<EventHeader>()
EventHeader_SIZE == 24
\* the byte offset of event_type in the header
EVENT_TYPE_OFFSET == 8

\* event.rs 55, 80, 101, 181, 202, 216: the EVENT_TYPE constants
ImuEvent_EVENT_TYPE == 1
MotorEvent_EVENT_TYPE == 2
SafetyEvent_EVENT_TYPE == 3
GpioEvent_EVENT_TYPE == 4
TimeSeriesEvent_EVENT_TYPE == 5
TraceEvent_EVENT_TYPE == 100

\* size_of of the repr(C) structs: the header and eight, six, four and four 32-bit
\* fields, and for the time series u32, padding, i64, u32, u32
ImuEvent_SIZE == 56
MotorEvent_SIZE == 48
SafetyEvent_SIZE == 40
GpioEvent_SIZE == 40
TimeSeriesEvent_SIZE == 48

\* the u32 at a byte offset, as a little-endian host reads it
U32At(data, off) ==
    Byte(data, off) + Byte(data, off + 1) * 256 + Byte(data, off + 2) * 65536
        + Byte(data, off + 3) * 16777216

EventErr(e) == [ok |-> FALSE, variant |-> "", event_type |-> 0, data |-> <<>>, err |-> e]
\* a fixed-size variant: the struct copied out of the first `size` bytes
EventStruct(variant, data, size) ==
    [ok |-> TRUE, variant |-> variant, event_type |-> 0, data |-> SubSeq(data, 1, size),
     err |-> ""]

\* event.rs 245-303: RkEvent::from_bytes
RkEvent_from_bytes(data) ==
    IF Len(data) < EventHeader_SIZE THEN EventErr("data too short for event header")
    ELSE LET event_type == U32At(data, EVENT_TYPE_OFFSET)
         IN  CASE event_type = ImuEvent_EVENT_TYPE ->
                      IF Len(data) < ImuEvent_SIZE
                      THEN EventErr("data too short for IMU event")
                      ELSE EventStruct("Imu", data, ImuEvent_SIZE)
               [] event_type = MotorEvent_EVENT_TYPE ->
                      IF Len(data) < MotorEvent_SIZE
                      THEN EventErr("data too short for motor event")
                      ELSE EventStruct("Motor", data, MotorEvent_SIZE)
               [] event_type = SafetyEvent_EVENT_TYPE ->
                      IF Len(data) < SafetyEvent_SIZE
                      THEN EventErr("data too short for safety event")
                      ELSE EventStruct("Safety", data, SafetyEvent_SIZE)
               [] event_type = GpioEvent_EVENT_TYPE ->
                      IF Len(data) < GpioEvent_SIZE
                      THEN EventErr("data too short for GPIO event")
                      ELSE EventStruct("Gpio", data, GpioEvent_SIZE)
               [] event_type = TimeSeriesEvent_EVENT_TYPE ->
                      IF Len(data) < TimeSeriesEvent_SIZE
                      THEN EventErr("data too short for time-series event")
                      ELSE EventStruct("TimeSeries", data, TimeSeriesEvent_SIZE)
               [] OTHER ->
                      [ok |-> TRUE, variant |-> "Unknown", event_type |-> event_type,
                       data |-> data, err |-> ""]

\* event.rs 319-329: RkEvent::event_type
RkEvent_event_type(event) ==
    CASE event.variant = "Imu" -> ImuEvent_EVENT_TYPE
      [] event.variant = "Motor" -> MotorEvent_EVENT_TYPE
      [] event.variant = "Safety" -> SafetyEvent_EVENT_TYPE
      [] event.variant = "Gpio" -> GpioEvent_EVENT_TYPE
      [] event.variant = "TimeSeries" -> TimeSeriesEvent_EVENT_TYPE
      [] event.variant = "Trace" -> TraceEvent_EVENT_TYPE
      [] OTHER -> event.event_type

\* the discriminators and lengths of the payloads parsed
EvDiscriminators == {<<0, 0>>, <<1, 0>>, <<2, 0>>, <<3, 0>>, <<4, 0>>, <<5, 0>>, <<6, 0>>,
                     <<100, 0>>, <<101, 0>>, <<1, 1>>, <<100, 1>>, <<255, 255>>}
EvLengths ==
    {0, EventHeader_SIZE - 1, EventHeader_SIZE, SafetyEvent_SIZE - 1, SafetyEvent_SIZE,
     MotorEvent_SIZE - 1, MotorEvent_SIZE, ImuEvent_SIZE - 1}
        \cup {ImuEvent_SIZE + k : k \in 0 .. MaxTail}
\* a payload of n bytes whose event_type has the two low bytes d and every other byte
\* differs from its neighbours
EvPayload(n, d) ==
    [i \in 1 .. n |->
        IF i = EVENT_TYPE_OFFSET + 1 THEN d[1]
        ELSE IF i = EVENT_TYPE_OFFSET + 2 THEN d[2]
        ELSE IF i \in (EVENT_TYPE_OFFSET + 3) .. (EVENT_TYPE_OFFSET + 4) THEN 0
        ELSE (i * 7) % 256]
EvPayloads == {EvPayload(n, d) : n \in EvLengths, d \in EvDiscriminators}

NoEvent == EventErr("none")

\* nothing to parse
EvIdle ==
    /\ ev_data = <<>>
    /\ ev_aligned = TRUE
    /\ ev_event = NoEvent
    /\ ev_type = -1

\* a payload read from the ring buffer, at an aligned address or not
EvInput ==
    /\ ev_data \in EvPayloads
    /\ ev_aligned \in BOOLEAN
    /\ ev_event = NoEvent
    /\ ev_type = -1

\* RkEvent::from_bytes(&data)
FromBytes ==
    /\ ev_event = NoEvent
    /\ \/ ev_event' = RkEvent_from_bytes(ev_data)
       \/ /\ ~ev_aligned
          /\ Len(ev_data) >= EventHeader_SIZE
          /\ ev_event' = EventErr("panic")
    /\ UNCHANGED <<ev_data, ev_aligned, ev_type>>
    /\ UNCHANGED non_ev_vars

\* event.event_type() on the parsed event
EventType ==
    /\ ev_event.ok
    /\ ev_type = -1
    /\ ev_type' = RkEvent_event_type(ev_event)
    /\ UNCHANGED <<ev_data, ev_aligned, ev_event>>
    /\ UNCHANGED non_ev_vars

EvNext ==
    \/ FromBytes
    \/ EventType

(***************************************************************************)
(* Region layouts and boot-time frame states the allocator is built from.  *)
(* Bases and lengths are in 4 KiB frames; regions are sorted and disjoint. *)
(***************************************************************************)
Layouts ==
    { <<[base |-> 0, len |-> 2 * FramesPer2MiB + 1]>>,
      <<[base |-> FramesPer1GiB - 1, len |-> FramesPer1GiB + 1]>>,
      <<[base |-> 1, len |-> FramesPer2MiB],
        [base |-> 2 * FramesPer2MiB, len |-> FramesPer2MiB + 1]>> }

\* "stage1": the boot shim has marked a frame Allocated and one frame is Unusable
BootPatterns == {"all_free", "stage1"}

BootState(pattern, region_idx, len, i) ==
    IF pattern = "stage1" /\ region_idx = 0 /\ i = len - 1 THEN "Allocated"
    ELSE IF pattern = "stage1" /\ i = 1 THEN "Unusable"
    ELSE "Free"

\* MemoryRegion::new / with_frames for every region of a layout
BuildRegions(layout, pattern) ==
    [r \in 0 .. (Len(layout) - 1) |->
        [base |-> layout[r + 1].base * Size4KiB_SIZE,
         frames |-> [i \in 0 .. (layout[r + 1].len - 1) |-> BootState(pattern, r, layout[r + 1].len, i)]]]

\* the frame one past the end of the highest region
AddrLimit(regs) ==
    LET top == regs[NumRegions(regs) - 1]
    IN  top.base + RegionLen(top) * Size4KiB_SIZE

\* the S-aligned frame addresses from the one below the lowest region (if any) up to
\* the first one past every region
FrameAddrs(S) ==
    LET lo == regions[0].base \div S
        hi == (AddrLimit(regions) + S - 1) \div S
    IN  {k * S : k \in (IF lo > 0 THEN lo - 1 ELSE 0) .. hi}

\* the 4 KiB frame addresses of the inclusive range start..=end of S-sized frames
RangeFrames(S, start, end) ==
    {a \in FrameAddrs(Size4KiB_SIZE) : start <= end /\ a >= start /\ a < end + S}

StateAt(regs, addr) ==
    LET loc == find_frame_location(regs, addr)
    IN  IF loc.some THEN regs[loc.val.region_idx].frames[loc.val.frame_idx]
        ELSE "Unusable"

\* lib.rs 59-65: PhysicalMemoryManager::new
PmmConstruct(layout, pattern) ==
    /\ regions = BuildRegions(layout, pattern)
    /\ first_free = find_first_free_internal(regions)
    /\ panicked = FALSE
    /\ handed = {}
    /\ last = [op |-> "new", S |-> Size4KiB_SIZE, arg |-> 0, status |-> "some", why |-> "",
               start |-> 0, end |-> 0, pre |-> regions, pre_ff |-> first_free,
               pre_handed |-> {}, after_alloc |-> FALSE]

PmmInit ==
    /\ \E layout \in Layouts, pattern \in BootPatterns : PmmConstruct(layout, pattern)
    /\ overflow_checks \in BOOLEAN
    /\ RbInit
    /\ AttConstruct("kprobe")
    /\ SigIdle
    /\ RelIdle
    /\ ElfIdle
    /\ JitIdle
    /\ EvIdle
    /\ CgIdle

\* lib.rs 228, 247-249, 281-283, 298-300: allocate_frames::<S>(n)
AllocateFrames(S, n) ==
    /\ ~panicked
    /\ \E r \in {allocate_frames_impl(regions, first_free, S, n, overflow_checks)} :
       LET ok == r.status = "some"
       IN  /\ regions' = r.regions
           /\ first_free' = r.first_free
           /\ panicked' = (r.status = "panic")
           /\ handed' = IF ok THEN handed \cup RangeFrames(S, r.start, r.end) ELSE handed
           /\ last' = [op |-> "allocate_frames", S |-> S, arg |-> n, status |-> r.status,
                       why |-> IF r.status = "panic" THEN r.why ELSE "",
                       start |-> IF ok THEN r.start ELSE 0,
                       end |-> IF ok THEN r.end ELSE 0,
                       pre |-> regions, pre_ff |-> first_free,
                       pre_handed |-> handed, after_alloc |-> FALSE]
    /\ UNCHANGED overflow_checks
    /\ UNCHANGED non_pmm_vars

StillHanded(regs) == {a \in handed : StateAt(regs, a) = "Allocated"}

\* lib.rs 230: deallocate_frame::<S>(frame)
DeallocateFrame(S, addr) ==
    /\ ~panicked
    /\ \E r \in {deallocate_frame(S, [regions |-> regions, first_free |-> first_free], addr)} :
           /\ regions' = r.regions
           /\ first_free' = r.first_free
           /\ handed' = StillHanded(r.regions)
           /\ last' = [op |-> "deallocate_frame", S |-> S, arg |-> addr,
                       status |-> IF r.ok THEN "some" ELSE "none", why |-> "",
                       start |-> addr, end |-> addr,
                       pre |-> regions, pre_ff |-> first_free,
                       pre_handed |-> handed, after_alloc |-> FALSE]
    /\ UNCHANGED <<overflow_checks, panicked>>
    /\ UNCHANGED non_pmm_vars

\* lib.rs 232-243: deallocate_frames::<S>(start..=end)
DeallocateFrames(S, start, end) ==
    /\ ~panicked
    /\ \E r \in {deallocate_frames(S, [regions |-> regions, first_free |-> first_free],
                                  start, end)} :
       LET returned == /\ last.op = "allocate_frames" /\ last.status = "some"
                       /\ last.S = S /\ last.start = start /\ last.end = end
       IN  /\ regions' = r.regions
           /\ first_free' = r.first_free
           /\ handed' = StillHanded(r.regions)
           /\ last' = [op |-> "deallocate_frames", S |-> S,
                       arg |-> IF returned THEN last.arg ELSE 0,
                       status |-> IF r.ok /\ start <= end THEN "some" ELSE "none",
                       why |-> "",
                       start |-> start, end |-> end,
                       pre |-> IF returned THEN last.pre ELSE regions,
                       pre_ff |-> first_free,
                       pre_handed |-> handed, after_alloc |-> returned]
    /\ UNCHANGED <<overflow_checks, panicked>>
    /\ UNCHANGED non_pmm_vars

PmmNext ==
    \/ \E S \in PageSizes, n \in 0 .. MaxN : AllocateFrames(S, n)
    \/ \E S \in PageSizes : \E addr \in FrameAddrs(S) : DeallocateFrame(S, addr)
    \/ /\ last.op = "allocate_frames" /\ last.status = "some"
       /\ DeallocateFrames(last.S, last.start, last.end)

PmmSpec == PmmInit /\ [][PmmNext]_vars

(***************************************************************************)
(* Producer, step by step after the producer protocol: publish the new     *)
(* producer position, write the header with the busy bit, write the        *)
(* payload, then clear busy (commit) or clear busy and set discard.        *)
(***************************************************************************)
\* reserve n bytes; on a full buffer the reservation fails and the record is dropped
Reserve(n) ==
    /\ prod.pc = "idle"
    /\ LET total == RecordHeaderSize + ((n + 7) \div 8) * 8
       IN  /\ producer_pos + total <= MaxProducerPos
           /\ IF \/ consumer_pos > producer_pos + total
                 \/ producer_pos + total - consumer_pos > data_size
              THEN UNCHANGED <<producer_pos, prod>>
              ELSE /\ producer_pos' = producer_pos + total
                   /\ prod' = [pc |-> "header", pos |-> producer_pos, len |-> n]
    /\ UNCHANGED <<rb_data, consumer_pos, cons, committed, consumed, obs>>
    /\ UNCHANGED non_rb_vars

\* the record header with the busy bit set and the payload length; pg_off is 0
WriteHeader ==
    /\ prod.pc = "header"
    /\ rb_data' = WriteBytes(rb_data, AndMask(prod.pos),
                             LeBytes(prod.len, TRUE, FALSE) \o <<0, 0, 0, 0>>)
    /\ prod' = [prod EXCEPT !.pc = "reserved"]
    /\ UNCHANGED <<consumer_pos, producer_pos, cons, committed, consumed, obs>>
    /\ UNCHANGED non_rb_vars

\* the payload, wrapping at the mask
WritePayload ==
    /\ prod.pc = "reserved"
    /\ rb_data' = WriteBytes(rb_data, AndMask(prod.pos + RecordHeaderSize),
                             PayloadOf(prod.pos, prod.len))
    /\ prod' = [prod EXCEPT !.pc = "written"]
    /\ UNCHANGED <<consumer_pos, producer_pos, cons, committed, consumed, obs>>
    /\ UNCHANGED non_rb_vars

\* commit: the busy bit is cleared
Commit ==
    /\ prod.pc = "written"
    /\ rb_data' = WriteBytes(rb_data, AndMask(prod.pos), LeBytes(prod.len, FALSE, FALSE))
    /\ committed' = Append(committed, [pos |-> prod.pos,
                                       payload |-> PayloadOf(prod.pos, prod.len)])
    /\ prod' = [prod EXCEPT !.pc = "idle"]
    /\ UNCHANGED <<consumer_pos, producer_pos, cons, consumed, obs>>
    /\ UNCHANGED non_rb_vars

\* discard: the discard bit is set alongside clearing busy
Discard ==
    /\ prod.pc \in {"reserved", "written"}
    /\ rb_data' = WriteBytes(rb_data, AndMask(prod.pos), LeBytes(prod.len, FALSE, TRUE))
    /\ prod' = [prod EXCEPT !.pc = "idle"]
    /\ UNCHANGED <<consumer_pos, producer_pos, cons, committed, consumed, obs>>
    /\ UNCHANGED non_rb_vars

(***************************************************************************)
(* Consumer: RingBufConsumer::read_event, one action per shared access.    *)
(***************************************************************************)
\* history: a read_event call returns `result`
Return(entry, busy, result, pos_after, rec) ==
    obs' = [busy |-> busy, entry |-> entry, result |-> result,
            pos_after |-> pos_after, rec |-> rec]

\* ringbuf.rs 176-183: load both positions; nothing to read if cons_pos >= prod_pos
LoadPositions ==
    /\ cons.pc \in {"idle", "again"}
    /\ IF consumer_pos >= producer_pos
       THEN /\ cons' = ConsIdle
            /\ Return(consumer_pos, FALSE, None, consumer_pos, 0)
       ELSE /\ cons' = [ConsIdle EXCEPT !.pc = "header", !.entry = consumer_pos,
                                        !.cons_pos = consumer_pos,
                                        !.prod_pos = producer_pos]
            /\ UNCHANGED obs
    /\ UNCHANGED <<rb_data, consumer_pos, producer_pos, prod, committed, consumed>>
    /\ UNCHANGED non_rb_vars

\* ringbuf.rs 185-195: read the record header; a busy record ends the call
ReadHeader ==
    /\ cons.pc = "header"
    /\ LET record_offset == AndMask(cons.cons_pos)
           len == HeaderLenAt(rb_data, record_offset)
       IN  IF is_busy(len)
           THEN /\ cons' = ConsIdle
                /\ Return(cons.entry, len[4] >= 128, None, consumer_pos, 0)
           ELSE /\ cons' = [cons EXCEPT !.pc = "copy", !.len = len,
                                        !.rec = CommittedAt(cons.cons_pos)]
                /\ UNCHANGED obs
    /\ UNCHANGED <<rb_data, consumer_pos, producer_pos, prod, committed, consumed>>
    /\ UNCHANGED non_rb_vars

\* ringbuf.rs 197-225: copy the payload unless the record is discarded.  A second
\* chunk longer than the data region reads past the mapping: the call faults.
CopyData ==
    /\ cons.pc = "copy"
    /\ LET record_offset == AndMask(cons.cons_pos)
           data_offset == AndMask(record_offset + RecordHeaderSize)
           dlen == data_len(cons.len)
       IN  IF is_discarded(cons.len)
           THEN cons' = [cons EXCEPT !.pc = "advance", !.data = <<>>]
           ELSE IF dlen - (data_size - data_offset) > data_size
           THEN cons' = [cons EXCEPT !.pc = "fault"]
           ELSE cons' = [cons EXCEPT !.pc = "advance",
                                     !.data = CopyPayload(rb_data, data_offset, dlen)]
    /\ UNCHANGED <<rb_data, consumer_pos, producer_pos, prod, committed, consumed, obs>>
    /\ UNCHANGED non_rb_vars

\* ringbuf.rs 227-236: advance the consumer position; an empty `data` calls read_event
\* again, anything else is returned
Advance ==
    /\ cons.pc = "advance"
    /\ consumer_pos' = cons.cons_pos + record_size(data_len(cons.len))
    /\ IF cons.data = <<>>
       THEN /\ cons' = [ConsIdle EXCEPT !.pc = "again"]
            /\ consumed' = Append(consumed, [rec |-> cons.rec, data |-> None])
            /\ UNCHANGED obs
       ELSE /\ cons' = ConsIdle
            /\ consumed' = Append(consumed, [rec |-> cons.rec, data |-> Some(cons.data)])
            /\ Return(cons.entry, cons.len[4] >= 128, Some(cons.data), consumer_pos',
                      cons.rec)
    /\ UNCHANGED <<rb_data, producer_pos, prod, committed>>
    /\ UNCHANGED non_rb_vars

RbNext ==
    \/ \E n \in PayloadLens : Reserve(n)
    \/ WriteHeader
    \/ WritePayload
    \/ Commit
    \/ Discard
    \/ LoadPositions
    \/ ReadHeader
    \/ CopyData
    \/ Advance

\* the ring buffer of a freshly built system
RbStart ==
    /\ PmmConstruct(<<[base |-> 0, len |-> 2 * FramesPer2MiB + 1]>>, "all_free")
    /\ overflow_checks = FALSE
    /\ RbInit
    /\ AttConstruct("kprobe")
    /\ SigIdle
    /\ RelIdle
    /\ ElfIdle
    /\ JitIdle
    /\ EvIdle
    /\ CgIdle

RbSpec == RbStart /\ [][RbNext]_vars

\* ringbuf.rs 240-246: available(), prod_pos.saturating_sub(cons_pos)
available == IF producer_pos >= consumer_pos THEN producer_pos - consumer_pos ELSE 0

\* every outstanding reservation is eventually committed or discarded, and the consumer
\* keeps calling read_event; the producer may stop reserving at any time
RbLiveSpec ==
    /\ RbSpec
    /\ WF_vars(WriteHeader)
    /\ WF_vars(WritePayload)
    /\ WF_vars(Commit \/ Discard)
    /\ WF_vars(LoadPositions)
    /\ WF_vars(ReadHeader)
    /\ WF_vars(CopyData)
    /\ WF_vars(Advance)

(***************************************************************************)
(* A second producer running the same protocol on another CPU: both        *)
(* reserve by publishing a new producer position atomically, so records    *)
(* of the two interleave in the data region.                               *)
(***************************************************************************)
Reserve2(n) ==
    /\ prod2.pc = "idle"
    /\ LET total == RecordHeaderSize + ((n + 7) \div 8) * 8
       IN  /\ producer_pos + total <= MaxProducerPos
           /\ IF \/ consumer_pos > producer_pos + total
                 \/ producer_pos + total - consumer_pos > data_size
              THEN UNCHANGED <<producer_pos, prod2>>
              ELSE /\ producer_pos' = producer_pos + total
                   /\ prod2' = [pc |-> "header", pos |-> producer_pos, len |-> n]
    /\ UNCHANGED <<rb_data, consumer_pos, prod, cons, committed, consumed, obs>>
    /\ UNCHANGED non_mp_vars

WriteHeader2 ==
    /\ prod2.pc = "header"
    /\ rb_data' = WriteBytes(rb_data, AndMask(prod2.pos),
                             LeBytes(prod2.len, TRUE, FALSE) \o <<0, 0, 0, 0>>)
    /\ prod2' = [prod2 EXCEPT !.pc = "reserved"]
    /\ UNCHANGED <<consumer_pos, producer_pos, prod, cons, committed, consumed, obs>>
    /\ UNCHANGED non_mp_vars

WritePayload2 ==
    /\ prod2.pc = "reserved"
    /\ rb_data' = WriteBytes(rb_data, AndMask(prod2.pos + RecordHeaderSize),
                             PayloadOf(prod2.pos, prod2.len))
    /\ prod2' = [prod2 EXCEPT !.pc = "written"]
    /\ UNCHANGED <<consumer_pos, producer_pos, prod, cons, committed, consumed, obs>>
    /\ UNCHANGED non_mp_vars

Commit2 ==
    /\ prod2.pc = "written"
    /\ rb_data' = WriteBytes(rb_data, AndMask(prod2.pos), LeBytes(prod2.len, FALSE, FALSE))
    /\ committed' = Append(committed, [pos |-> prod2.pos,
                                       payload |-> PayloadOf(prod2.pos, prod2.len)])
    /\ prod2' = [prod2 EXCEPT !.pc = "idle"]
    /\ UNCHANGED <<consumer_pos, producer_pos, prod, cons, consumed, obs>>
    /\ UNCHANGED non_mp_vars

Discard2 ==
    /\ prod2.pc \in {"reserved", "written"}
    /\ rb_data' = WriteBytes(rb_data, AndMask(prod2.pos), LeBytes(prod2.len, FALSE, TRUE))
    /\ prod2' = [prod2 EXCEPT !.pc = "idle"]
    /\ UNCHANGED <<consumer_pos, producer_pos, prod, cons, committed, consumed, obs>>
    /\ UNCHANGED non_mp_vars

RbMpNext ==
    \/ \E n \in PayloadLens : Reserve(n)
    \/ WriteHeader
    \/ WritePayload
    \/ Commit
    \/ Discard
    \/ \E n \in {ShortPayload} : Reserve2(n)   \* the second producer sends short records
    \/ WriteHeader2
    \/ WritePayload2
    \/ Commit2
    \/ Discard2
    \/ LoadPositions
    \/ ReadHeader
    \/ CopyData
    \/ Advance

RbMpSpec == RbStart /\ [][RbMpNext]_vars

\* the allocator of a freshly booted system, whatever the build profile
PmmBoot ==
    /\ PmmConstruct(<<[base |-> 0, len |-> 2 * FramesPer2MiB + 1]>>, "all_free")
    /\ overflow_checks \in BOOLEAN

AttInit ==
    /\ \E k \in AttachKinds : AttConstruct(k)
    /\ PmmBoot
    /\ RbInit
    /\ SigIdle
    /\ RelIdle
    /\ ElfIdle
    /\ JitIdle
    /\ EvIdle
    /\ CgIdle

AttSpec == AttInit /\ [][AttNext]_vars

SigInit ==
    /\ SigFromHeader \/ SigFromBytes
    /\ PmmConstruct(<<[base |-> 0, len |-> 2 * FramesPer2MiB + 1]>>, "all_free")
    /\ overflow_checks = FALSE
    /\ RbInit
    /\ AttConstruct("kprobe")
    /\ RelIdle
    /\ ElfIdle
    /\ JitIdle
    /\ EvIdle
    /\ CgIdle

SigSpec == SigInit /\ [][SigNext]_vars

RelInit ==
    /\ RelNew
    /\ PmmConstruct(<<[base |-> 0, len |-> 2 * FramesPer2MiB + 1]>>, "all_free")
    /\ overflow_checks = FALSE
    /\ RbInit
    /\ AttConstruct("kprobe")
    /\ SigIdle
    /\ ElfIdle
    /\ JitIdle
    /\ EvIdle
    /\ CgIdle

RelSpec == RelInit /\ [][RelNext]_vars

ElfInit ==
    /\ ElfInput
    /\ PmmBoot
    /\ RbInit
    /\ AttConstruct("kprobe")
    /\ SigIdle
    /\ RelIdle
    /\ JitIdle
    /\ EvIdle
    /\ CgIdle

ElfSpec == ElfInit /\ [][ElfNext]_vars

JitInit ==
    /\ JitInput
    /\ PmmConstruct(<<[base |-> 0, len |-> 2 * FramesPer2MiB + 1]>>, "all_free")
    /\ overflow_checks = FALSE
    /\ RbInit
    /\ AttConstruct("kprobe")
    /\ SigIdle
    /\ RelIdle
    /\ ElfIdle
    /\ EvIdle
    /\ CgIdle

JitSpec == JitInit /\ [][JitNext]_vars

EvInit ==
    /\ EvInput
    /\ CgIdle
    /\ PmmConstruct(<<[base |-> 0, len |-> 2 * FramesPer2MiB + 1]>>, "all_free")
    /\ overflow_checks = FALSE
    /\ RbInit
    /\ AttConstruct("kprobe")
    /\ SigIdle
    /\ RelIdle
    /\ ElfIdle
    /\ JitIdle

EvSpec == EvInit /\ [][EvNext]_vars

CgInit ==
    /\ CgInput
    /\ PmmConstruct(<<[base |-> 0, len |-> 2 * FramesPer2MiB + 1]>>, "all_free")
    /\ overflow_checks = FALSE
    /\ RbInit
    /\ AttConstruct("kprobe")
    /\ SigIdle
    /\ RelIdle
    /\ ElfIdle
    /\ JitIdle
    /\ EvIdle

CgSpec == CgInit /\ [][CgNext]_vars

(***************************************************************************)
(* Properties of the frame allocator                                       *)
(***************************************************************************)
FreePositions(regs) ==
    {p \in UNION {{<<r, i>> : i \in DOMAIN regs[r].frames} : r \in DOMAIN regs} :
        regs[p[1]].frames[p[2]] = "Free"}

Precedes(p, q) == p[1] < q[1] \/ (p[1] = q[1] /\ p[2] < q[2])

AllocOk == last.op = "allocate_frames" /\ last.status = "some"

\* C1: in every reachable allocator state the first-free cursor, if present, points to
\* a Free frame and no Free frame precedes it in (region index, frame index) order;
\* the cursor is absent only when no frame of any region is Free.
C1_CursorInvariant ==
    IF first_free.some
    THEN LET c == <<first_free.val.region_idx, first_free.val.frame_idx>>
         IN  /\ c \in FreePositions(regions)
             /\ \A p \in FreePositions(regions) : ~Precedes(p, c)
    ELSE FreePositions(regions) = {}

\* an allocation consumed the last Free frame of region 0 and the cursor moved on to
\* region 1
C1_Witness ==
    /\ AllocOk
    /\ last.pre_ff.some /\ last.pre_ff.val.region_idx = 0
    /\ first_free.some /\ first_free.val.region_idx = 1

\* C2: when allocate_frames<S>(n) succeeds, every 4 KiB frame of the returned range was
\* Free before the call and is Allocated after it, the range holds n * (S / 4 KiB)
\* frames, none of them was handed out and not yet given back, and every frame outside
\* the range keeps its state.
C2_AllocationEffect ==
    AllocOk =>
        LET range == RangeFrames(last.S, last.start, last.end)
        IN  /\ Cardinality(range) = last.arg * (last.S \div Size4KiB_SIZE)
            /\ \A a \in range :
                  /\ StateAt(last.pre, a) = "Free"
                  /\ StateAt(regions, a) = "Allocated"
                  /\ a \notin last.pre_handed
            /\ \A r \in DOMAIN regions : \A i \in DOMAIN regions[r].frames :
                  frame_address(regions[r], i).val \notin range
                      => regions[r].frames[i] = last.pre[r].frames[i]
            /\ DOMAIN regions = DOMAIN last.pre
            /\ \A r \in DOMAIN regions :
                  /\ regions[r].base = last.pre[r].base
                  /\ DOMAIN regions[r].frames = DOMAIN last.pre[r].frames

\* two 2 MiB frames were allocated in one call while other frames were handed out
C2_Witness ==
    /\ AllocOk /\ last.S = Size2MiB_SIZE /\ last.arg = 2
    /\ last.pre_handed # {}

\* C3: the start (and end) address of every range returned by allocate_frames<S> is a
\* multiple of S, for every region layout, and the alignment expectation on the
\* addresses of the selected window never fails.
C3_AlignedStart ==
    last.op = "allocate_frames" =>
        /\ last.status = "some" => (last.start % last.S = 0 /\ last.end % last.S = 0)
        /\ last.status = "panic" =>
              last.why \notin {"start address must be aligned to page size",
                               "end address must be aligned to page size"}

\* a 1 GiB frame was allocated from a region whose base is not 1 GiB aligned
C3_Witness ==
    /\ AllocOk /\ last.S = Size1GiB_SIZE /\ last.arg = 1
    /\ regions[0].base % Size1GiB_SIZE # 0
    /\ regions[0].base % Size2MiB_SIZE # 0
    /\ find_frame_location(regions, last.start).val.region_idx = 0

\* C4: if allocate_frames<S>(n), n >= 1, succeeds and the returned range is passed to
\* deallocate_frames, the deallocation succeeds and every frame has the state it had
\* before the allocation.
C4_AllocDeallocRoundTrip ==
    (last.op = "deallocate_frames" /\ last.after_alloc /\ last.arg >= 1) =>
        /\ last.status = "some"
        /\ regions = last.pre

\* two 1 GiB-or-2 MiB frames allocated in one call were given back with deallocate_frames
C4_Witness ==
    /\ last.op = "deallocate_frames" /\ last.after_alloc
    /\ last.S = Size2MiB_SIZE /\ last.arg = 2 /\ last.status = "some"

\* the positions <<region, frame>> at which a window of cnt consecutive Free frames starts
\* at an S-aligned address and lies inside one region
Windows(regs, S, cnt) ==
    {p \in UNION {{<<r, i>> : i \in DOMAIN regs[r].frames} : r \in DOMAIN regs} :
        /\ frame_address(regs[p[1]], p[2]).val % S = 0
        /\ p[2] + cnt <= RegionLen(regs[p[1]])
        /\ \A j \in p[2] .. (p[2] + cnt - 1) : regs[p[1]].frames[j] = "Free"}

\* C5: allocate_frames<S>(n), n >= 1, returns the lowest window, regions taken in index
\* order, of n * (S / 4 KiB) consecutive Free frames that starts S-aligned inside one
\* region (skipping regions without one); it returns none only when no region has such
\* a window.
C5_LowestAlignedWindow ==
    (last.op = "allocate_frames" /\ last.arg >= 1) =>
        LET w == Windows(last.pre, last.S, last.arg * (last.S \div Size4KiB_SIZE))
        IN  IF w = {}
            THEN last.status = "none"
            ELSE /\ last.status = "some"
                 /\ LET loc == find_frame_location(last.pre, last.start).val
                        got == <<loc.region_idx, loc.frame_idx>>
                    IN  /\ got \in w
                        /\ \A p \in w : ~Precedes(p, got)
                 /\ last.end = last.start + (last.arg - 1) * last.S

\* a 2 MiB frame was taken from region 1 although region 0 still has a Free frame: region
\* 0 has no aligned window and was skipped
C5_Witness ==
    /\ AllocOk /\ last.S = Size2MiB_SIZE
    /\ NumRegions(regions) = 2
    /\ last.pre_ff.val.region_idx = 0
    /\ find_frame_location(regions, last.start).val.region_idx = 1

\* C6: deallocate_frame<4 KiB>(f) on a frame that is not Allocated (Free, Unusable, or
\* outside every region) returns none and leaves every frame state and the first-free
\* cursor unchanged.
C6_RejectedDeallocation ==
    (/\ last.op = "deallocate_frame" /\ last.S = Size4KiB_SIZE
     /\ StateAt(last.pre, last.arg) # "Allocated") =>
        /\ last.status = "none"
        /\ regions = last.pre
        /\ first_free = last.pre_ff

\* a double free: the frame was handed out, given back, and is given back again while
\* the cursor sits after it
C6_Witness ==
    /\ last.op = "deallocate_frame" /\ last.S = Size4KiB_SIZE
    /\ find_frame_location(regions, last.arg).some
    /\ StateAt(last.pre, last.arg) = "Free"
    /\ last.status = "none"
    /\ handed # {}

\* C7: no allocator call panics, whatever the state, the page size and the argument
\* (n = 0 and n larger than all memory included).
C7_NoPanic == ~panicked

(***************************************************************************)
(* Properties of the ring buffer                                           *)
(***************************************************************************)
\* the consumed records that were committed records when read_event read their header
ConsumedCommitted == SelectSeq(consumed, LAMBDA e : e.rec # 0)

\* C8: the payloads read_event returns are the payloads the producer committed, in
\* the same order and with the same bytes: every committed record read_event reads
\* and advances past is returned with its payload, none is lost and none comes twice.
C8_CommittedReturnedInOrder ==
    /\ \A i \in 1 .. Len(ConsumedCommitted) :
          /\ ConsumedCommitted[i].data.some
          /\ ConsumedCommitted[i].data.val = committed[ConsumedCommitted[i].rec].payload
    /\ \A i, j \in 1 .. Len(ConsumedCommitted) :
          i < j => ConsumedCommitted[i].rec < ConsumedCommitted[j].rec

\* C9: a read_event call that finds the busy bit set at the consumer position returns
\* none and leaves the consumer position where it was; a payload is copied and
\* returned only after the busy bit of its record was read clear.
C9_BusyAborts ==
    /\ obs.busy => (~obs.result.some /\ obs.pos_after = obs.entry)
    /\ cons.pc \in {"copy", "advance"} => cons.len[4] < 128

C9_Witness ==
    /\ obs.busy
    /\ ~obs.result.some
    /\ prod.pc \in {"reserved", "written"}
    /\ consumer_pos = prod.pos

\* the payload of the committed record c runs over the end of the data region
Straddles(c) == AndMask(c.pos + RecordHeaderSize) + Len(c.payload) > data_size

\* C10: read_event returns, for a committed record whose payload straddles the end of
\* the data region, exactly the committed payload bytes in order.
C10_WrapReassembled ==
    (obs.result.some /\ obs.rec # 0 /\ Straddles(committed[obs.rec]))
        => obs.result.val = committed[obs.rec].payload

C10_Witness ==
    /\ obs.result.some
    /\ obs.rec # 0
    /\ Straddles(committed[obs.rec])
    /\ obs.result.val = committed[obs.rec].payload
    /\ AndMask(committed[obs.rec].pos + RecordHeaderSize) # 0

\* C11: in every reachable ring-buffer state the unread span producer_pos -
\* consumer_pos lies in 0 .. data_size: the producer never reserves over unread
\* records and the consumer never advances beyond the producer position.
C11_PositionsBounded ==
    /\ consumer_pos <= producer_pos
    /\ producer_pos - consumer_pos <= data_size

(***************************************************************************)
(* Properties of the attach points                                         *)
(***************************************************************************)
\* C12: the ids successive attach calls return are strictly increasing and start at
\* 1, so no attach returns an id that an earlier attach returned.
C12_StrictlyIncreasingIds ==
    (att_last.op = "attach" /\ att_last.ok) =>
        IF att_last.prev.some THEN att_last.id > att_last.prev.val
        ELSE att_last.id = 1

\* how often id occurs in list
Occurrences(list, id) == Cardinality({i \in 1 .. Len(list) : list[i] = id})

\* C13 as stated: attach(p) returning id followed at once by detach(id) leaves the
\* attached ids and the next-id counter as they were before the attach.
C13_RegistryUnchanged ==
    (att_last.op = "detach" /\ att_last.undo) =>
        (attached = att_last.base /\ next_id = att_last.base_next)

\* C13 amended: attach(p) returning id followed at once by detach(id) succeeds and
\* leaves the attached ids as they were before the attach (the same ids as often; the
\* same list when id was not attached before), and the next-id counter one further.
C13_AttachedUnchanged ==
    (att_last.op = "detach" /\ att_last.undo) =>
        /\ att_last.ok
        /\ Len(attached) = Len(att_last.base)
        /\ \A id \in AttachIds :
              Occurrences(attached, id) = Occurrences(att_last.base, id)
        /\ Occurrences(att_last.base, att_last.id) = 0 => attached = att_last.base
        /\ next_id = (att_last.base_next + 1) % IdLimit

C13_Witness ==
    /\ att_last.op = "detach"
    /\ att_last.undo
    /\ att_last.base # <<>>
    /\ attached = att_last.base
    /\ next_id # att_last.base_next

\* C14: detach(id) of an id that is not attached fails (resource-not-found) and
\* leaves the attached ids unchanged; detach(id) of an attached id leaves the list
\* without id, every other id kept in the same relative order.
C14_DetachEffect ==
    att_last.op = "detach" =>
        /\ att_last.ok = (Occurrences(att_last.pre, att_last.id) > 0)
        /\ attached = SelectSeq(att_last.pre, LAMBDA x : x # att_last.id)

(***************************************************************************)
(* Signed envelope                                                         *)
(***************************************************************************)
\* the header value of sg_in was serialized and the bytes parsed
RoundTripDone == sg_pc \in {"parsed", "program", "verified"} /\ sg_in.header # NoHeader

\* C15 (as stated): for every header value h, of any version, parsing the bytes
\* produced by serializing h succeeds and yields a header equal to h in every field.
C15_RoundTripAnyVersion ==
    RoundTripDone => sg_parsed.ok /\ sg_parsed.header = sg_in.header

\* C15 (amended): the serialized header is 120 bytes; for every header value h whose
\* version is the supported one, parsing the bytes produced by serializing h succeeds
\* and yields a header equal to h in every field, flags included; for any other
\* version the parse fails with unsupported-version.
C15_RoundTripSupportedVersion ==
    RoundTripDone =>
        /\ Len(sg_data) = 120
        /\ IF sg_in.header.version = 1
           THEN sg_parsed.ok /\ sg_parsed.header = sg_in.header
           ELSE ~sg_parsed.ok /\ sg_parsed.err = "UnsupportedVersion"

C15_Witness ==
    /\ RoundTripDone
    /\ sg_in.header.version = 1
    /\ sg_in.header.flags.bits = 255
    /\ sg_in.header.timestamp = 1234567890
    /\ sg_parsed.ok
    /\ sg_parsed.header = sg_in.header

\* C16: header parsing fails with data-too-short when the input is shorter than 120
\* bytes; otherwise with invalid-magic when the first four bytes are not "RBPF",
\* whatever the version byte; otherwise with unsupported-version when the version
\* byte is not 1; and succeeds in every remaining case.
C16_ParseErrorOrder ==
    sg_pc \in {"parsed", "program", "verified"} =>
        IF Len(sg_data) < 120
        THEN ~sg_parsed.ok /\ sg_parsed.err = "DataTooShort"
        ELSE IF <<sg_data[1], sg_data[2], sg_data[3], sg_data[4]>> # <<82, 66, 80, 70>>
        THEN ~sg_parsed.ok /\ sg_parsed.err = "InvalidMagic"
        ELSE IF sg_data[5] # 1
        THEN ~sg_parsed.ok /\ sg_parsed.err = "UnsupportedVersion"
        ELSE sg_parsed.ok

\* a full-length input with both a wrong magic and a wrong version
C16_Witness ==
    /\ sg_pc = "parsed"
    /\ Len(sg_data) >= 120
    /\ sg_data[4] # 70
    /\ sg_data[5] # 1
    /\ sg_parsed.err = "InvalidMagic"

\* C17: for an envelope whose header hash was computed over body B, verify_hash
\* succeeds when the body is B and returns hash-mismatch when the body differs from B;
\* the comparison reports equality exactly when all 32 byte pairs are equal.
C17_VerifyHash ==
    sg_pc = "verified" =>
        /\ sg_verify \in {"Ok", "HashMismatch"}
        /\ sg_in.body.some => (sg_verify = "Ok" <=> sg_signed.program_data = sg_in.body.val)
        /\ sg_verify = "Ok" <=>
               \A i \in 1 .. 32 :
                   sg_signed.header.program_hash[i] = keccak256(sg_signed.program_data)[i]

\* the body differs from the signed one in its last byte only
C17_Witness ==
    /\ sg_pc = "verified"
    /\ sg_in.body.some
    /\ sg_in.body.val # <<>>
    /\ sg_signed.program_data = FlipLast(sg_in.body.val)
    /\ sg_verify = "HashMismatch"

(***************************************************************************)
(* Relocation                                                              *)
(***************************************************************************)
\* the last entry processed was a map reference at an existing slot with a known symbol
MapRefApplied ==
    /\ rl_last.reloc.rel_type = 1
    /\ rl_last.reloc.offset \div 8 < Len(rl_last.pre)
    /\ rl_last.reloc.sym_idx < Len(RelSymbols)

\* C20: after relocating a map reference at slot i whose symbol names the map at index
\* k (the first of that name) of the map table, slot i has immediate k and source
\* nibble 1, its destination nibble, opcode and offset are unchanged, and every other
\* instruction is unchanged except that the immediate of slot i+1 is 0 when slot i is
\* a wide load; if the symbol names no map the relocation fails with undefined-symbol.
C20_MapRefEffect ==
    MapRefApplied =>
        LET i == (rl_last.reloc.offset \div 8) + 1
            name == RelSymbols[rl_last.reloc.sym_idx + 1]
            named == {k \in 1 .. Len(rl_maps) : rl_maps[k] = name}
            pre == rl_last.pre
        IN  IF named = {}
            THEN rl_last.err = "UndefinedSymbol" /\ rl_result = "UndefinedSymbol"
            ELSE /\ rl_last.err = ""
                 /\ Len(rl_insns) = Len(pre)
                 /\ \E k \in named :
                       /\ \A j \in named : k <= j
                       /\ rl_insns[i].imm = k - 1
                 /\ rl_insns[i].regs \div 16 = 1
                 /\ rl_insns[i].regs % 16 = pre[i].regs % 16
                 /\ rl_insns[i].opcode = pre[i].opcode
                 /\ rl_insns[i].offset = pre[i].offset
                 /\ \A j \in 1 .. Len(pre) :
                       j # i =>
                           IF j = i + 1 /\ pre[i].opcode = 24
                           THEN rl_insns[j] = [pre[j] EXCEPT !.imm = 0]
                           ELSE rl_insns[j] = pre[j]

\* a wide load with destination register 1 got the index of the second map, and the
\* slot after it lost its immediate
C20_Witness ==
    /\ MapRefApplied
    /\ rl_last.err = ""
    /\ rl_last.reloc.offset = 0
    /\ rl_last.pre[1].opcode = 24
    /\ rl_last.pre[2].imm = 99
    /\ rl_insns[1].imm = 1
    /\ rl_insns[1].regs = 17
    /\ rl_insns[2].imm = 0

(***************************************************************************)
(* ELF header checks                                                       *)
(***************************************************************************)
HeaderErrors ==
    {"ElfTooSmall", "InvalidMagic", "UnsupportedClass", "UnsupportedEndian",
     "UnsupportedMachine"}

\* C19: the constructor rejects an input with the first applicable error in this
\* order: shorter than 64 bytes, too-small; first four bytes not 0x7f 'E' 'L' 'F',
\* invalid magic; class not 64-bit, unsupported class; data encoding neither little-
\* nor big-endian, unsupported endianness; machine field, read in the file's byte
\* order, not 247, unsupported machine; a header passing all five checks in either
\* byte order is rejected by none of them.
C19_HeaderErrorOrder ==
    el_pc = "done" =>
        IF Len(el_data) < 64 THEN el_parser.result = "ElfTooSmall"
        ELSE IF <<el_data[1], el_data[2], el_data[3], el_data[4]>> # <<127, 69, 76, 70>>
        THEN el_parser.result = "InvalidMagic"
        ELSE IF el_data[5] # 2 THEN el_parser.result = "UnsupportedClass"
        ELSE IF el_data[6] # 1 /\ el_data[6] # 2 THEN el_parser.result = "UnsupportedEndian"
        ELSE IF (IF el_data[6] = 1 THEN el_data[19] + 256 * el_data[20]
                 ELSE 256 * el_data[19] + el_data[20]) # 247
        THEN el_parser.result = "UnsupportedMachine"
        ELSE el_parser.result \notin HeaderErrors

\* a big-endian file whose machine field is 247 in big-endian order is accepted
C19_Witness ==
    /\ el_pc = "done"
    /\ Len(el_data) >= 64
    /\ el_data[6] = 2
    /\ el_data[19] = 0
    /\ el_data[20] = 247
    /\ el_parser.result = "Ok"
    /\ ~el_parser.little_endian

(***************************************************************************)
(* JIT executor                                                            *)
(***************************************************************************)
\* C18: for every program and context the result returned by the JIT executor's
\* execute equals the result the interpreter returns for the same program and
\* context, both when compilation succeeds and when it fails with a JIT error.
C18_ExecuteEqualsInterpreter ==
    (jt_jit # NoRun /\ jt_interp # NoRun) =>
        /\ jt_jit.compiled \in {"Ok", "UnsupportedInstruction", "CodegenFailed"}
        /\ jt_jit.result = jt_interp.result

\* compilation failed and the fallback returned what the interpreter computes from
\* the context
C18_Witness ==
    /\ jt_jit.compiled = "UnsupportedInstruction"
    /\ jt_interp # NoRun
    /\ jt_jit.result = BpfOk(7)
    /\ jt_ctx = <<7>>

\* C21: a relocation entry whose type is neither 1 (map reference) nor 10 (helper
\* call), whatever its offset and symbol index, causes no error and leaves the
\* instruction sequence unchanged.
C21_OtherTypesIgnored ==
    (rl_count >= 1 /\ rl_last.reloc.rel_type \notin {R_BPF_64_64, R_BPF_64_32}) =>
        /\ rl_last.err = ""
        /\ rl_insns = rl_last.pre

(***************************************************************************)
(* Event parsing                                                           *)
(***************************************************************************)
\* the variant the discriminator d names, and the payload length it needs
VariantOf(d) ==
    CASE d = 1 -> [name |-> "Imu", size |-> ImuEvent_SIZE]
      [] d = 2 -> [name |-> "Motor", size |-> MotorEvent_SIZE]
      [] d = 3 -> [name |-> "Safety", size |-> SafetyEvent_SIZE]
      [] d = 4 -> [name |-> "Gpio", size |-> GpioEvent_SIZE]
      [] d = 5 -> [name |-> "TimeSeries", size |-> TimeSeriesEvent_SIZE]
      [] d = 100 -> [name |-> "Trace", size |-> EventHeader_SIZE]
      [] OTHER -> [name |-> "Unknown", size |-> EventHeader_SIZE]

\* C22: for every payload long enough for the variant its header names, parsing
\* classifies by the discriminator (1 IMU, 2 Motor, 3 Safety, 4 GPIO, 5 Time-series,
\* 100 Trace), every other discriminator yields Unknown carrying the discriminator and
\* all input bytes, and event_type() equals the discriminator of the input header
\* (stated for payloads at an aligned address).
C22_ClassifiedByDiscriminator ==
    (/\ ev_event # NoEvent
     /\ ev_aligned
     /\ Len(ev_data) >= EventHeader_SIZE
     /\ Len(ev_data) >= VariantOf(U32At(ev_data, EVENT_TYPE_OFFSET)).size) =>
        /\ ev_event.ok
        /\ ev_event.variant = VariantOf(U32At(ev_data, EVENT_TYPE_OFFSET)).name
        /\ ev_event.variant = "Unknown" =>
               /\ ev_event.event_type = U32At(ev_data, EVENT_TYPE_OFFSET)
               /\ ev_event.data = ev_data
        /\ ev_type # -1 => ev_type = U32At(ev_data, EVENT_TYPE_OFFSET)

(***************************************************************************)
(* Failing deallocations                                                   *)
(***************************************************************************)
\* C27: a failing deallocation is all-or-nothing: when deallocate_frame for a 2 MiB or
\* 1 GiB frame returns none because some 4 KiB sub-frame is not Allocated, the state of
\* every frame and the first-free cursor are the same as before the call.
C27_FailedDeallocationChangesNothing ==
    (last.op = "deallocate_frame" /\ last.S # Size4KiB_SIZE /\ last.status = "none") =>
        /\ regions = last.pre
        /\ first_free = last.pre_ff

(***************************************************************************)
(* Ring buffer with two producers                                          *)
(***************************************************************************)
\* C28: if record A was reserved before record B, read_event never returns B's payload
\* before A has been committed or discarded: when read_event has returned the payload
\* of a committed record, no reservation at a lower position is still outstanding.
C28_EarlierReservationFinished ==
    (obs.result.some /\ obs.rec # 0) =>
        /\ prod.pc # "idle" => prod.pos > committed[obs.rec].pos
        /\ prod2.pc # "idle" => prod2.pos > committed[obs.rec].pos

\* C29: if the producer stops reserving and every outstanding reservation is eventually
\* committed or discarded, a consumer that keeps calling read_event eventually reaches
\* a state in which the consumer position equals the producer position, and from then
\* on read_event returns none and available() is 0.
C29_ConsumerCatchesUp ==
    <>[](consumer_pos = producer_pos /\ available = 0)

\* C30: for every input that passes the ELF header checks, section parsing and
\* section-data access return data lying wholly inside the input or return an error,
\* and never index outside the input or panic, also when the section-header-table
\* offset plus index*64, or a section's offset plus size, exceeds the machine word.
C30_NoPanicInsideInput ==
    /\ el_parser.result # "panic"
    /\ el_section.result # "panic"
    /\ el_section.result = "Ok" =>
           (el_section.start <= el_section.end /\ el_section.end <= Len(el_data))
    /\ \A table \in {el_parser.shstrtab, el_parser.strtab} :
           table.some => (table.val.start <= table.val.end /\ table.val.end <= Len(el_data))

(***************************************************************************)
(* Properties of the emitted code                                          *)
(***************************************************************************)
\* the native offset at which the code of source slot `slot` starts, for a slot the
\* compile loop started an instruction at
SlotMarked(slot) == \E k \in 1 .. Len(cg_code.em.slot_of) : cg_code.em.slot_of[k] = slot
NativeOffset(slot) ==
    cg_code.em.insn_offsets[CHOOSE k \in 1 .. Len(cg_code.em.slot_of) :
                                cg_code.em.slot_of[k] = slot]

\* C23: in a program the JIT compiled, every jump at source slot i with offset k whose
\* target slot i+1+k lies inside the program has a patched displacement equal to the
\* native offset of the first byte emitted for slot i+1+k minus the native offset of
\* the byte following the displacement field, wherever wide loads occur.
C23_DisplacementReachesTargetSlot ==
    cg_code.result = "Ok" =>
        \A j \in 1 .. Len(cg_code.em.jump_patches) :
            LET p == cg_code.em.jump_patches[j]
                target == p.slot + 1 + At(cg_program, p.slot).offset
            IN  (target >= 0 /\ target < Len(cg_program) /\ SlotMarked(target))
                    => cg_code.disp[j] = NativeOffset(target) - (p.patch_offset + 4)

\* C24: after the prologue host rbp (BPF r10) is the top of the reserved scratch frame,
\* so an access through r10 at an offset in [-512, -1] lies inside the scratch and at or
\* above the host stack pointer; and once the epilogue has returned, rsp (past the
\* return address) and rbp, rbx, r13, r14, r15 have their values from entry.
C24_FramePointerAtTopOfScratch ==
    /\ hs_pc = "body" =>
          /\ hs.regs[RBP] = hs.regs[RSP] + stack_size
          /\ \A off \in {-stack_size, -1} :
                /\ hs.regs[RBP] + off >= hs.regs[RSP]
                /\ hs.regs[RBP] + off < hs.regs[RSP] + stack_size
    /\ hs_pc = "returned" =>
          /\ hs.regs[RSP] = hs_entry.regs[RSP] + 8
          /\ \A r \in {RBP, RBX, R13, R14, R15} : hs.regs[r] = hs_entry.regs[r]

\* what a BPF ALU operation computes on n-bit operands a and b (division by zero gives
\* zero, a zero modulus leaves the value, shift counts are taken modulo n)
AluRef(op, a, b, n) ==
    CASE op = "Add" -> (a + b) % (2 ^ n)
      [] op = "Sub" -> (a - b) % (2 ^ n)
      [] op = "Mul" -> (IF n = HostBits THEN MulMod(a, b, HostHalfBits) ELSE (a * b) % (2 ^ n))
      [] op = "Div" -> (IF b = 0 THEN 0 ELSE a \div b)
      [] op = "Or" -> BitOp("or", a, b, n)
      [] op = "And" -> BitOp("and", a, b, n)
      [] op = "Lsh" -> (a % (2 ^ (n - (b % n)))) * (2 ^ (b % n))
      [] op = "Rsh" -> a \div (2 ^ (b % n))
      [] op = "Neg" -> ((2 ^ n) - a) % (2 ^ n)
      [] op = "Mod" -> (IF b = 0 THEN a ELSE a % b)
      [] op = "Xor" -> BitOp("xor", a, b, n)
      [] op = "Mov" -> b
      [] OTHER -> Sar(a, b % n, n)

\* C25: after the sequence emitted for an accepted 32-bit-class ALU instruction, the
\* destination register holds the operation computed on the low 32 bits of the
\* operands, with its upper 32 bits zero.
C25_Alu32ZeroExtends ==
    (hs_pc = "exit" /\ OpcodeClass(hs_insn) = "Alu32") =>
        LET dst == BPF_TO_X64[dst_reg(hs_insn) + 1]
            operand == IF SourceIsReg(hs_insn)
                       THEN hs_pre.regs[BPF_TO_X64[src_reg(hs_insn) + 1]]
                       ELSE hs_insn.imm % HostWord
        IN  hs.regs[dst] = AluRef(AluOp_from_opcode(hs_insn.opcode).val,
                                  hs_pre.regs[dst] % HostHalf, operand % HostHalf,
                                  HostHalfBits)

\* C26: the sequence emitted for an accepted ALU instruction changes no BPF-mapped host
\* register other than the destination's (rax, rdx and rcx keep their values when they
\* are not the destination), and a division, modulus or shift by a register uses the
\* value the source operand had before the sequence.
C26_AluChangesOnlyDestination ==
    hs_pc = "exit" =>
        LET dst == BPF_TO_X64[dst_reg(hs_insn) + 1]
            op == AluOp_from_opcode(hs_insn.opcode).val
            operand == IF SourceIsReg(hs_insn)
                       THEN hs_pre.regs[BPF_TO_X64[src_reg(hs_insn) + 1]]
                       ELSE hs_insn.imm % HostWord
        IN  /\ \A k \in 1 .. Len(BPF_TO_X64) :
                  BPF_TO_X64[k] # dst => hs.regs[BPF_TO_X64[k]] = hs_pre.regs[BPF_TO_X64[k]]
            /\ (OpcodeClass(hs_insn) = "Alu64" /\ op \in {"Div", "Mod", "Lsh", "Rsh", "Arsh"})
                   => hs.regs[dst] = AluRef(op, hs_pre.regs[dst], operand, HostBits)

====
